---- MODULE Spec2Model ----
(***************************************************************************)
(* Paper pipeline: the ingestion stage (batch-processor) and the           *)
(* vectorization stage (vector-coordinator).                               *)
(*                                                                         *)
(*   SpecDedup  - Deduplicator.Deduplicate / DeduplicateWithStats          *)
(*   Spec       - VectorCoordinator.processVectorization with the          *)
(*                retriever, the embedding client and the vector writer    *)
(*   SpecIngest - S3EventProcessor.ProcessS3Event with the deduplicator    *)
(*                and the DynamoDB writer                                  *)
(*   SpecRetriever - DataRetriever.GetCombinedTextsByTraceID, one page of  *)
(*                the pagination loop per step                             *)
(*   SpecStore  - VectorStorage.BatchStoreVectors called directly          *)
(*   SpecBulk   - VectorStorage.BatchStoreVectors on lists of several      *)
(*                chunks built with CreateVectorRecord                     *)
(*   SpecUpsert - Writer.BatchUpsert / BatchUpsertWithStats on lists of    *)
(*                several chunks                                           *)
(*   SpecCancel - processVectorization under a context that is cancelled   *)
(*   SpecEmbed  - APIClient.GenerateEmbedding called directly              *)
(*   SpecShared - two invocations on one instance of a component           *)
(*   SpecRerun  - processVectorization invoked again on an unchanged       *)
(*                source                                                   *)
(*   SpecEvent  - ProcessS3Event with the S3 event of the invocation kept  *)
(*   SpecWriters - either writer called directly                           *)
(*                                                                         *)
(* Strings that are only compared are TLA+ strings.  Texts whose content   *)
(* is inspected (titles, abstracts, combined texts) are sequences of       *)
(* one-character strings.  Error texts are sequences of fragments: the     *)
(* literal pieces of the format string and the values substituted in it.   *)
(***************************************************************************)
EXTENDS Integers, Sequences, FiniteSets, Bags, TLC

VARIABLES
    \* ---- deduplicator ----
    dPc,        \* "input" | "done" | "again"
    dIn,        \* the papers handed to the deduplicator
    dOut,       \* records returned by DeduplicateWithStats
    dStats,     \* DeduplicationStats returned by DeduplicateWithStats
    dOutPlain,  \* records returned by Deduplicate
    \* ---- vectorization stage ----
    pc,         \* "idle" | "embedding" | "store" | "done" | "rdone"
    traceID,    \* input of the current invocation
    texts,      \* combinedTexts returned by the retriever
    idx,        \* position of the embedding loop (1-based)
    vectorRecords, \* records built so far by the embedding loop
    result,     \* *ProcessingResult under construction / returned
    ret,        \* what the invocation returned: result and error nil-ness, error text
    calls,      \* external calls issued by the current invocation, in order
    table,      \* vectors table: the bag of the items it holds
    env,        \* what really happened in this invocation (embedding/storage failures)
    runs,       \* number of invocations started
    \* ---- ingestion stage ----
    iPc,        \* "idle" | "write" | "done"
    iMid,       \* ProcessS3Event's locals when it calls the writer
    iResult,    \* *ProcessResult returned by ProcessS3Event
    iRet,       \* result and error nil-ness and the error text of the return
    iEnv,       \* what really happened (handed to the writer, accepted by the store)
    iEvent,     \* the S3 records of the event and what they hold (SpecEvent)
    \* ---- retriever, page by page ----
    rPc,        \* "input" | "loop" | "done"
    rTrace,     \* the trace id asked for
    rStore,     \* the papers table behind the index
    rSt,        \* locals of the pagination loop
    rOut,       \* what GetCombinedTextsByTraceID returned
    \* ---- vector writer ----
    wPc,        \* "input" | "done"
    wIn,        \* the records handed to BatchStoreVectors
    wAns,       \* the answer of the vectors table to each chunk
    wOut,       \* what BatchStoreVectors returned, and what reached the table
    wBuilt,     \* how the records handed over were built (SpecBulk)
    \* ---- ingestion writer ----
    uPc,        \* "input" | "stats" | "plain"
    uIn,        \* the papers handed to the writer
    uStore,     \* the answers of the papers table to the calls for each chunk
    uOut,       \* what BatchUpsertWithStats returned, and what reached the table
    uPlain,     \* what BatchUpsert returned, and what reached the table
    \* ---- embedding client ----
    ePc,        \* "input" | "done"
    eText,      \* the text handed to GenerateEmbedding (UTF-8 bytes)
    eHttp,      \* what the HTTP call comes to
    eOut,       \* what GenerateEmbedding returned, and the text the service got
    \* ---- two invocations on one instance ----
    sComp,      \* the component whose instance is called
    sInv        \* each invocation: its position, input, locals and result

dedupVars == <<dPc, dIn, dOut, dStats, dOutPlain>>
vecVars == <<pc, traceID, texts, idx, vectorRecords, result, ret, calls, table, env, runs>>
ingestVars == <<iPc, iMid, iResult, iRet, iEnv, iEvent>>
retrVars == <<rPc, rTrace, rStore, rSt, rOut>>
storeVars == <<wPc, wIn, wAns, wOut, wBuilt>>
upsertVars == <<uPc, uIn, uStore, uOut, uPlain>>
embedVars == <<ePc, eText, eHttp, eOut>>
sharedVars == <<sComp, sInv>>
vars == <<dedupVars, vecVars, ingestVars, retrVars, storeVars, upsertVars, embedVars,
          sharedVars>>

(***************************************************************************)
(* Generic helpers                                                         *)
(***************************************************************************)
Min(a, b) == IF a < b THEN a ELSE b

Range(s) == {s[i] : i \in 1..Len(s)}

\* All sequences over S of length at most n.
SeqsUpTo(S, n) == UNION {[1..k -> S] : k \in 0..n}

\* s[a..b] as Go's s[a-1:b]
Slice(s, a, b) == SubSeq(s, a, b)

\* strings.Contains on fragment texts: the empty string is contained in every
\* text; a value is contained when it was substituted into the text.
Contains(text, sub) == sub = "" \/ \E i \in 1..Len(text) : text[i] = sub

(***************************************************************************)
(* Deduplicator (batch-processor/deduplicator/deduplicator.go)             *)
(***************************************************************************)
\* Length bound of the deduplicator's input.
MaxDedupLen == 4

DedupKeys == {"", "k1", "k2"}
DedupTitles == {"A", "B"}
DedupPapers == [PaperID : DedupKeys, Title : DedupTitles]

ZeroStats == [OriginalCount |-> 0, UniqueCount |-> 0, DuplicateCount |-> 0, InvalidCount |-> 0]

\* The loop of DeduplicateWithStats from position i on; acc carries the seen
\* set, the deduplicated slice and the two counters.
RECURSIVE DedupLoop(_, _, _)
DedupLoop(papers, i, acc) ==
    IF i > Len(papers) THEN acc
    ELSE LET paper == papers[i] IN
         IF paper.PaperID = ""
         THEN DedupLoop(papers, i + 1, [acc EXCEPT !.invalid = @ + 1])
         ELSE IF paper.PaperID \notin acc.seen
              THEN DedupLoop(papers, i + 1,
                       [acc EXCEPT !.seen = @ \cup {paper.PaperID},
                                   !.out = Append(@, paper)])
              ELSE DedupLoop(papers, i + 1, [acc EXCEPT !.dup = @ + 1])

\* The loop with a later occurrence replacing the record kept for its key.
RECURSIVE DedupLoopLastWins(_, _, _)
DedupLoopLastWins(papers, i, acc) ==
    IF i > Len(papers) THEN acc
    ELSE LET paper == papers[i] IN
         IF paper.PaperID = ""
         THEN DedupLoopLastWins(papers, i + 1, [acc EXCEPT !.invalid = @ + 1])
         ELSE IF paper.PaperID \notin acc.seen
              THEN DedupLoopLastWins(papers, i + 1,
                       [acc EXCEPT !.seen = @ \cup {paper.PaperID},
                                   !.out = Append(@, paper)])
              ELSE DedupLoopLastWins(papers, i + 1,
                       [acc EXCEPT !.dup = @ + 1,
                                   !.out = [k \in 1..Len(@) |->
                                              IF @[k].PaperID = paper.PaperID
                                              THEN paper ELSE @[k]]])

\* Mutant: empty-key records are dropped without being counted.
DeduplicateWithStatsNoInvalid(papers) ==
    LET r == DedupLoop(papers, 1, [seen |-> {}, out |-> <<>>, dup |-> 0, invalid |-> 0])
    IN [papers |-> r.out,
        stats |-> [OriginalCount |-> Len(papers), UniqueCount |-> Len(r.out),
                   DuplicateCount |-> r.dup, InvalidCount |-> 0]]

\* Mutant: every record is kept.
DeduplicateWithStatsKeepingAll(papers) ==
    [papers |-> papers,
     stats |-> [OriginalCount |-> Len(papers), UniqueCount |-> Len(papers),
                DuplicateCount |-> 0, InvalidCount |-> 0]]

\* Mutant: the loop in which the last occurrence of a key wins.
DedupRunLastWins(papers) ==
    DedupLoopLastWins(papers, 1, [seen |-> {}, out |-> <<>>, dup |-> 0, invalid |-> 0])

\* The loop of DeduplicateWithStats run from its initial seen set, slice and counters.
DedupRun(papers) ==
    DedupLoop(papers, 1, [seen |-> {}, out |-> <<>>, dup |-> 0, invalid |-> 0])

\* DeduplicateWithStats: the records kept and the statistics.
DeduplicateWithStats(papers) ==
    IF Len(papers) = 0
    THEN [papers |-> papers, stats |-> [ZeroStats EXCEPT !.OriginalCount = Len(papers)]]
    ELSE LET r == DedupRun(papers)
         IN [papers |-> r.out,
             stats |-> [OriginalCount |-> Len(papers), UniqueCount |-> Len(r.out),
                        DuplicateCount |-> r.dup, InvalidCount |-> r.invalid]]

\* The loop of Deduplicate from position i on (its own copy of the loop: seen
\* set, deduplicated slice, duplicateCount used for the log line only).
RECURSIVE DeduplicateLoop(_, _, _)
DeduplicateLoop(papers, i, acc) ==
    IF i > Len(papers) THEN acc
    ELSE LET paper == papers[i] IN
         IF paper.PaperID = ""
         THEN DeduplicateLoop(papers, i + 1, acc)
         ELSE IF paper.PaperID \notin acc.seen
              THEN DeduplicateLoop(papers, i + 1,
                       [acc EXCEPT !.seen = @ \cup {paper.PaperID},
                                   !.out = Append(@, paper)])
              ELSE DeduplicateLoop(papers, i + 1, [acc EXCEPT !.dup = @ + 1])

\* Mutant: Deduplicate keeps the last record of a key.
DeduplicateLastWins(papers) ==
    IF Len(papers) = 0 THEN papers ELSE DedupRunLastWins(papers).out

\* Deduplicate: the records kept.
Deduplicate(papers) ==
    IF Len(papers) = 0 THEN papers
    ELSE DeduplicateLoop(papers, 1, [seen |-> {}, out |-> <<>>, dup |-> 0]).out

DedupInit ==
    /\ dPc = "input"
    /\ dIn \in SeqsUpTo(DedupPapers, MaxDedupLen)
    /\ dOut = <<>>
    /\ dStats = ZeroStats
    /\ dOutPlain = <<>>

\* One call of DeduplicateWithStats and one of Deduplicate on the same input.
DedupCall ==
    /\ dPc = "input"
    /\ LET r == DeduplicateWithStats(dIn) IN
         /\ dOut' = r.papers
         /\ dStats' = r.stats
    /\ dOutPlain' = Deduplicate(dIn)
    /\ dPc' = "done"
    /\ UNCHANGED dIn

\* Each of the two is called again, on what it returned.
DedupReapply ==
    /\ dPc = "done"
    /\ dIn' = dOut
    /\ LET r == DeduplicateWithStats(dOut) IN
         /\ dOut' = r.papers
         /\ dStats' = r.stats
    /\ dOutPlain' = Deduplicate(dOutPlain)
    /\ dPc' = "again"


(***************************************************************************)
(* Retriever (vector-coordinator/retriever/retriever.go)                   *)
(***************************************************************************)
\* maxPages of GetCombinedTextsByTraceID.
maxPages == 100

\* Bounds of the papers table behind the trace-id index.
MaxItems == 2

NoCursor == -1

\* White space as strings.TrimSpace sees it, unicode.IsSpace: tab, line
\* feed, vertical tab, form feed, carriage return, space, and the code points
\* U+0085, U+00A0, U+1680, U+2000..U+200A, U+2028, U+2029, U+202F, U+205F and
\* U+3000.  A character without an escape of its own is named by its code
\* point.
WhiteSpace ==
    {"\t", "\n", "U+000B", "\f", "\r", " ", "U+0085", "U+00A0", "U+1680",
     "U+2000", "U+2001", "U+2002", "U+2003", "U+2004", "U+2005", "U+2006",
     "U+2007", "U+2008", "U+2009", "U+200A", "U+2028", "U+2029", "U+202F",
     "U+205F", "U+3000"}

\* strings.TrimSpace on a sequence of characters.
RECURSIVE TrimLeft(_)
TrimLeft(s) ==
    IF Len(s) > 0 /\ s[1] \in WhiteSpace THEN TrimLeft(Tail(s)) ELSE s

RECURSIVE TrimRight(_)
TrimRight(s) ==
    IF Len(s) > 0 /\ s[Len(s)] \in WhiteSpace
    THEN TrimRight(SubSeq(s, 1, Len(s) - 1)) ELSE s

TrimSpace(s) == TrimRight(TrimLeft(s))

\* strings.Join(parts, sep)
RECURSIVE Join(_, _)
Join(parts, sep) ==
    IF Len(parts) = 0 THEN <<>>
    ELSE IF Len(parts) = 1 THEN parts[1]
    ELSE parts[1] \o sep \o Join(Tail(parts), sep)

\* validatePaper: "" stands for a nil error.
validatePaper(paper) ==
    IF paper.PaperID = "" THEN "paper_id is empty"
    ELSE IF paper.TraceID = "" THEN "trace_id is empty"
    ELSE IF paper.Title = <<>> /\ paper.Abstract = <<>>
         THEN "both title and abstract are empty"
    ELSE ""

\* The validation loop over one page: the valid papers, in order.
ValidPapers(papers) == SelectSeq(papers, LAMBDA p : validatePaper(p) = "")

\* The text combination of one paper (lines 224-236).
CombineText(paper) ==
    LET p1 == IF paper.Title # <<>> THEN <<TrimSpace(paper.Title)>> ELSE <<>>
        p2 == IF paper.Abstract # <<>> THEN <<TrimSpace(paper.Abstract)>> ELSE <<>>
    IN [PaperID |-> paper.PaperID, Text |-> Join(p1 \o p2, <<".", " ">>)]

\* The combination loop over allPapers (lines 214-239), positions lo..hi.
RECURSIVE CombineBetween(_, _, _)
CombineBetween(papers, lo, hi) ==
    IF lo > hi THEN <<>>
    ELSE IF lo = hi
    THEN LET paper == papers[lo] IN
         IF paper.Title = <<>> /\ paper.Abstract = <<>> THEN <<>>
         ELSE <<CombineText(paper)>>
    ELSE LET mid == (lo + hi) \div 2
         IN CombineBetween(papers, lo, mid) \o CombineBetween(papers, mid + 1, hi)

CombineAll(papers) == CombineBetween(papers, 1, Len(papers))

\* The papers table seen through the trace-id index: the store serves `items`
\* in pages of `pageSize` starting after the cursor it is handed, returns a
\* next cursor while items remain (always, when `endless`), and fails the
\* query number `failAt` with `failKind` (0: never).
Query(store, cursor, n) ==
    LET from == IF cursor = NoCursor THEN 0 ELSE cursor
        to == Min(Len(store.items), from + store.pageSize)
    IN IF store.failAt = n /\ store.failKind = "query"
       THEN [err |-> TRUE, malformed |-> FALSE, items |-> <<>>, next |-> NoCursor]
       ELSE [err |-> FALSE,
             malformed |-> (store.failAt = n /\ store.failKind = "unmarshal"),
             items |-> SubSeq(store.items, from + 1, to),
             next |-> IF to < Len(store.items) \/ store.endless THEN to ELSE NoCursor]

\* One iteration of the pagination loop (lines 106-190).  st: pageCount,
\* lastEvaluatedKey, allPapers, the cursors of the queries issued so far, and
\* whether the loop was left (break, or return with an error).
QueryPage(store, st) ==
    IF st.left \/ ~(st.pageCount < maxPages) THEN st
    ELSE LET pageCount == st.pageCount + 1
             res == Query(store, st.lastKey, pageCount)
             sent == Append(st.queries, st.lastKey)
         IN IF res.err
            THEN [st EXCEPT !.pageCount = pageCount, !.queries = sent, !.left = TRUE,
                     !.errNil = FALSE,
                     !.errText = <<"failed to query papers by traceID on page ",
                                   ToString(pageCount), ": ", "store error">>]
            ELSE IF res.malformed
            THEN [st EXCEPT !.pageCount = pageCount, !.queries = sent, !.left = TRUE,
                     !.errNil = FALSE,
                     !.errText = <<"failed to unmarshal papers on page ",
                                   ToString(pageCount), ": ", "unmarshal error">>]
            ELSE LET all == st.allPapers \o ValidPapers(res.items) IN
                 IF res.next = NoCursor
                 THEN [st EXCEPT !.pageCount = pageCount, !.queries = sent,
                                 !.allPapers = all, !.left = TRUE]
                 ELSE [st EXCEPT !.pageCount = pageCount, !.queries = sent,
                                 !.allPapers = all, !.lastKey = res.next]

\* Mutant: a page that carries a cursor counts twice towards the ceiling.
QueryStepCountsTwice(store, st) ==
    LET r == QueryPage(store, st)
    IN IF r.left THEN r ELSE [r EXCEPT !.pageCount = @ + 1]

\* Mutant: the cursor of the response is not carried to the next query.
QueryStepStaleCursor(store, st) ==
    LET r == QueryPage(store, st)
    IN [r EXCEPT !.lastKey = st.lastKey]

\* Mutant: records failing validation are kept.
QueryStepKeepsInvalid(store, st) ==
    LET r == QueryPage(store, st)
        res == Query(store, st.lastKey, st.pageCount + 1)
    IN IF st.left \/ ~(st.pageCount < maxPages) \/ ~r.errNil THEN r
       ELSE [r EXCEPT !.allPapers = st.allPapers \o res.items]

\* The body of `for pageCount < maxPages` applied to the loop's locals.
QueryStep(store, st) == QueryPage(store, st)

\* n iterations of the loop, evaluated by halving.
RECURSIVE QueryIterate(_, _, _)
QueryIterate(store, st, n) ==
    IF n = 0 THEN st
    ELSE IF n = 1 THEN QueryStep(store, st)
    ELSE LET mid == QueryIterate(store, st, n \div 2)
         IN IF mid.left THEN mid ELSE QueryIterate(store, mid, n - (n \div 2))

\* The loop runs until it is left or pageCount reaches maxPages: at most
\* maxPages iterations.
QueryLoop(store, st) == QueryIterate(store, st, maxPages)

QueryStart ==
    [pageCount |-> 0, lastKey |-> NoCursor, allPapers |-> <<>>, queries |-> <<>>,
     left |-> FALSE, errNil |-> TRUE, errText |-> <<>>]

\* The return of lines 88-90.
EmptyTraceIDResult ==
    [errNil |-> FALSE, errText |-> <<"traceID cannot be empty">>, texts |-> <<>>,
     queries |-> <<>>, warned |-> FALSE]

\* Mutant: an empty result is reported as an error.
AfterLoopEmptyIsError(st) ==
    IF ~st.errNil \/ Len(st.allPapers) = 0
    THEN [errNil |-> FALSE,
          errText |-> IF st.errNil THEN <<"no papers found">> ELSE st.errText,
          texts |-> <<>>, queries |-> st.queries, warned |-> FALSE]
    ELSE [errNil |-> TRUE, errText |-> <<>>, texts |-> CombineAll(st.allPapers),
          queries |-> st.queries, warned |-> st.pageCount >= maxPages]

\* What follows the pagination loop (lines 138, 156 and 192-247): the error
\* return of the loop, the page-limit warning, the empty result, the
\* combination.
AfterLoop(st) ==
    IF ~st.errNil
    THEN [errNil |-> FALSE, errText |-> st.errText, texts |-> <<>>,
          queries |-> st.queries, warned |-> FALSE]
    ELSE [errNil |-> TRUE, errText |-> <<>>,
          texts |-> IF Len(st.allPapers) = 0 THEN <<>> ELSE CombineAll(st.allPapers),
          queries |-> st.queries, warned |-> st.pageCount >= maxPages]

\* Mutant: the empty trace id is not rejected before the first query.
GetCombinedTextsNoCheck(t, store) ==
    LET st == QueryLoop(store, QueryStart)
    IN IF ~st.errNil
       THEN [errNil |-> FALSE, errText |-> st.errText, texts |-> <<>>,
             queries |-> st.queries, warned |-> FALSE]
       ELSE [errNil |-> TRUE, errText |-> <<>>, texts |-> CombineAll(st.allPapers),
             queries |-> st.queries, warned |-> st.pageCount >= maxPages]

\* GetCombinedTextsByTraceID: error, combined texts, the cursors of the queries
\* issued, and whether the page-limit warning was logged.
GetCombinedTextsByTraceID(t, store) ==
    IF t = "" THEN EmptyTraceIDResult
    ELSE AfterLoop(QueryLoop(store, QueryStart))


(***************************************************************************)
(* Embedding client (vector-coordinator/client/vector_api_client.go)       *)
(***************************************************************************)
\* maxTextLength of GenerateEmbedding.
maxTextLength == 10000

\* A float64 is modelled by its decimal text; NaN is the only value that
\* differs from itself.
IsNaN(val) == val = "NaN"

\* validateEmbeddingResponse: "" stands for a nil error.
\* Mutant: the model version is not inspected.
validateEmbeddingResponseAnyVersion(response) ==
    IF Len(response.Embedding) = 0 THEN "embedding vector is empty"
    ELSE IF response.Dimension # Len(response.Embedding) THEN "dimension mismatch"
    ELSE IF \E i \in 1..Len(response.Embedding) : IsNaN(response.Embedding[i])
         THEN "embedding contains NaN"
    ELSE ""

validateEmbeddingResponse(response) ==
    IF Len(response.Embedding) = 0 THEN "embedding vector is empty"
    ELSE IF response.Dimension # Len(response.Embedding) THEN "dimension mismatch"
    ELSE IF response.ModelVersion = "" THEN "model version is empty"
    ELSE IF \E i \in 1..Len(response.Embedding) : IsNaN(response.Embedding[i])
         THEN "embedding contains NaN"
    ELSE ""

NoResponse == [Embedding |-> <<>>, ModelVersion |-> "", Dimension |-> 0]

\* A Go string is a sequence of bytes.  "C3" is the lead byte of a two-byte
\* UTF-8 character and "A9" its continuation byte; any other unit is a
\* one-byte character.  The byte at position i of s belongs to a complete
\* character:
WellFormedAt(s, i) ==
    CASE s[i] = "C3" -> i < Len(s) /\ s[i + 1] = "A9"
      [] s[i] = "A9" -> i > 1 /\ s[i - 1] = "C3"
      [] OTHER -> TRUE

\* U+FFFD in UTF-8.
ReplacementRune == <<"EF", "BF", "BD">>

\* json.Marshal of a string field coerces it to valid UTF-8: every byte that
\* belongs to no complete character is replaced by U+FFFD.  The text that
\* the service decodes from the request body, for the bytes lo..hi of s.
RECURSIVE CoerceBetween(_, _, _)
CoerceBetween(s, lo, hi) ==
    IF lo > hi THEN <<>>
    ELSE IF lo = hi
    THEN (IF WellFormedAt(s, lo) THEN <<s[lo]>> ELSE ReplacementRune)
    ELSE LET mid == (lo + hi) \div 2
         IN CoerceBetween(s, lo, mid) \o CoerceBetween(s, mid + 1, hi)

\* The request text as json.Marshal encodes it (line 1829).
MarshalText(s) ==
    IF \A i \in 1..Len(s) : WellFormedAt(s, i) THEN s ELSE CoerceBetween(s, 1, Len(s))

\* GenerateEmbedding against one HTTP outcome (lines 1801-1912): http.kind is
\* "newrequest" (NewRequestWithContext rejects the base URL: no request is
\* issued), "transport" (Do fails), "readbody" (reading the response body
\* fails), "statusraw" (non-200, the body is not the JSON error document),
\* "status" (non-200, the body is the error document), "badjson" (200, the
\* body does not parse) or "ok" (200, the body parses to http.resp).
\* json.Marshal of a request holding one string cannot fail.  sent: the text
\* of the request issued, as the service decodes it; requested: whether a
\* request was issued at all.
GenerateEmbedding(text, http) ==
    IF text = <<>>
    THEN [errNil |-> FALSE, errText |-> <<"text cannot be empty">>, resp |-> NoResponse,
          requested |-> FALSE, sent |-> <<>>]
    ELSE LET cut == IF Len(text) > maxTextLength THEN SubSeq(text, 1, maxTextLength)
                    ELSE text
             body == MarshalText(cut)
             fail(msg) == [errNil |-> FALSE, errText |-> msg, resp |-> NoResponse,
                           requested |-> TRUE, sent |-> body]
         IN CASE http.kind = "newrequest" ->
                   [errNil |-> FALSE,
                    errText |-> <<"failed to create HTTP request: ", "url error">>,
                    resp |-> NoResponse, requested |-> FALSE, sent |-> <<>>]
              [] http.kind = "transport" ->
                   fail(<<"HTTP request failed: ", "transport error">>)
              [] http.kind = "readbody" ->
                   fail(<<"failed to read response body: ", "read error">>)
              [] http.kind = "statusraw" ->
                   fail(<<"API request failed with status ", "code", ": ", "body">>)
              [] http.kind = "status" ->
                   fail(<<"API error (", "code", "): ", "message">>)
              [] http.kind = "badjson" ->
                   fail(<<"failed to parse embedding response: ", "json error">>)
              [] OTHER ->
                   LET v == validateEmbeddingResponse(http.resp) IN
                   IF v # ""
                   THEN fail(<<"invalid embedding response: ", v>>)
                   ELSE [errNil |-> TRUE, errText |-> <<>>, resp |-> http.resp,
                         requested |-> TRUE, sent |-> body]

(***************************************************************************)
(* Vector writer (vector-coordinator/storage/vector_storage.go)            *)
(***************************************************************************)
\* batchSize of BatchStoreVectors.
batchSize == 25

extractModelName(modelVersion) == modelVersion

\* Mutant: the declared dimension is a fixed number.
CreateVectorRecordFixedDimension(paperID, text, trace, embedding, modelVersion) ==
    [PaperID |-> paperID,
     VectorType |-> "title_abstract",
     Embedding |-> embedding,
     ModelName |-> extractModelName(modelVersion),
     ModelVersion |-> modelVersion,
     Dimension |-> 2,
     TextLength |-> Len(text),
     Content |-> text,
     TraceID |-> trace]

\* CreateVectorRecord (lines 82-107).
CreateVectorRecord(paperID, text, trace, embedding, modelVersion) ==
    [PaperID |-> paperID,
     VectorType |-> "title_abstract",
     Embedding |-> embedding,
     ModelName |-> extractModelName(modelVersion),
     ModelVersion |-> modelVersion,
     Dimension |-> Len(embedding),
     TextLength |-> Len(text),
     Content |-> text,
     TraceID |-> trace]

\* Mutant: the embedding values are not inspected.
validateVectorRecordNoNaN(record) ==
    IF record.PaperID = "" THEN "paper_id is empty"
    ELSE IF record.VectorType = "" THEN "vector_type is empty"
    ELSE IF Len(record.Embedding) = 0 THEN "embedding vector is empty"
    ELSE IF record.Dimension # Len(record.Embedding) THEN "dimension mismatch"
    ELSE IF record.ModelVersion = "" THEN "model_version is empty"
    ELSE IF record.TraceID = "" THEN "trace_id is empty"
    ELSE ""

\* validateVectorRecord: "" stands for a nil error.
validateVectorRecord(record) ==
    IF record.PaperID = "" THEN "paper_id is empty"
    ELSE IF record.VectorType = "" THEN "vector_type is empty"
    ELSE IF Len(record.Embedding) = 0 THEN "embedding vector is empty"
    ELSE IF record.Dimension # Len(record.Embedding) THEN "dimension mismatch"
    ELSE IF record.ModelVersion = "" THEN "model_version is empty"
    ELSE IF record.TraceID = "" THEN "trace_id is empty"
    ELSE IF \E i \in 1..Len(record.Embedding) : IsNaN(record.Embedding[i])
         THEN "embedding contains NaN"
    ELSE ""

EmptyBatchResult ==
    [SuccessCount |-> 0, FailedItems |-> <<>>, Errors |-> <<>>,
     requests |-> <<>>, accepted |-> <<>>, panicked |-> FALSE]

\* The records of s at the positions in the set idxs, in order.
AtPositions(s, idxs) ==
    LET RECURSIVE pick(_)
        pick(i) == IF i > Len(s) THEN <<>>
                   ELSE (IF i \in idxs THEN <<s[i]>> ELSE <<>>) \o pick(i + 1)
    IN pick(1)

\* processBatch on one chunk against one answer of the store.  beh.err: the
\* call returns an error; beh.outNil: it returns a nil output with it;
\* beh.unprocessed: the positions of the submitted items that the store
\* reports as unprocessed.  requests: the request lists submitted; accepted:
\* the records the store wrote.  MarshalMap cannot fail on a VectorRecord
\* (strings, ints and float64 only), so every valid record becomes a request.
processBatch(records, beh) ==
    LET invalid == SelectSeq(records, LAMBDA r : validateVectorRecord(r) # "")
        invalidErrs == [i \in 1..Len(invalid) |->
                          <<"invalid record ", invalid[i].PaperID, ": ",
                            validateVectorRecord(invalid[i])>>]
        validRecords == SelectSeq(records, LAMBDA r : validateVectorRecord(r) = "")
        n == Len(validRecords)
        unprocessed == beh.unprocessed \cap (1..n)
        unprocessedCount == Cardinality(unprocessed)
        successCount == n - unprocessedCount
    IN IF n = 0
       THEN [EmptyBatchResult EXCEPT !.FailedItems = invalid, !.Errors = invalidErrs]
       ELSE IF beh.err /\ beh.outNil
       THEN \* output.ConsumedCapacity is read before err is checked (line 240)
            [EmptyBatchResult EXCEPT !.requests = <<validRecords>>, !.panicked = TRUE]
       ELSE IF beh.err
       THEN [SuccessCount |-> 0,
             FailedItems |-> invalid \o validRecords,
             Errors |-> Append(invalidErrs, <<"batch write failed: ", "store error">>),
             requests |-> <<validRecords>>,
             accepted |-> <<>>,
             panicked |-> FALSE]
       ELSE [SuccessCount |-> successCount,
             \* approximate mapping: the last unprocessedCount valid records
             FailedItems |-> invalid \o SubSeq(validRecords, successCount + 1, n),
             Errors |-> invalidErrs,
             requests |-> <<validRecords>>,
             accepted |-> AtPositions(validRecords, (1..n) \ unprocessed),
             panicked |-> FALSE]

\* The chunk loop of BatchStoreVectors from offset i (0-based) on; the k-th
\* chunk gets the k-th answer of the store.
RECURSIVE BatchStoreLoop(_, _, _, _, _)
BatchStoreLoop(records, i, k, store, acc) ==
    IF ~(i < Len(records)) \/ acc.panicked THEN acc
    ELSE LET end == Min(i + batchSize, Len(records))
             batch == SubSeq(records, i + 1, end)
             br == processBatch(batch, store[k])
         IN BatchStoreLoop(records, i + batchSize, k + 1, store,
               [SuccessCount |-> acc.SuccessCount + br.SuccessCount,
                FailedItems |-> acc.FailedItems \o br.FailedItems,
                Errors |-> acc.Errors \o br.Errors,
                requests |-> acc.requests \o br.requests,
                accepted |-> acc.accepted \o br.accepted,
                panicked |-> br.panicked])

\* Mutant: the records that failed in a store call are submitted once more.
BatchStoreVectorsResubmitting(records, store) ==
    LET r == IF Len(records) = 0 THEN EmptyBatchResult
             ELSE BatchStoreLoop(records, 0, 1, store, EmptyBatchResult)
        again == SelectSeq(r.FailedItems, LAMBDA x : validateVectorRecord(x) = "")
    IN IF again = <<>> THEN r ELSE [r EXCEPT !.requests = Append(@, again)]

\* BatchStoreVectors: its error is always nil.
BatchStoreVectors(records, store) ==
    IF Len(records) = 0 THEN EmptyBatchResult
    ELSE BatchStoreLoop(records, 0, 1, store, EmptyBatchResult)

\* ceil(n / batchSize): the number of chunks of n records.
NumChunks(n) == (n + batchSize - 1) \div batchSize

\* Length bound of the lists handed to the writers: two chunks and one record.
MaxBulkRecords == 51

BulkSizes == {0, 1} \cup ((batchSize - 1)..MaxBulkRecords)


(***************************************************************************)
(* Vector coordinator (vector-coordinator/main.go)                         *)
(***************************************************************************)
StatusStarted == "started"
StatusInProgress == "in_progress"
StatusCompleted == "completed"
StatusFailed == "failed"
StatusPartial == "partial_success"

\* ProcessingError.Error(): the cause is appended when there is one.
ProcessingErrorText(stage, message, hasCause, cause) ==
    IF hasCause
    THEN <<stage, ": ">> \o message \o <<" (caused by: ">> \o cause \o <<")">>
    ELSE <<stage, ": ">> \o message

NewResult(t) ==
    [TraceID |-> t, Status |-> StatusStarted, TotalPapers |-> 0,
     EmbeddingsGenerated |-> 0, VectorsStored |-> 0, FailedEmbeddings |-> 0,
     FailedStorage |-> 0, ErrorMessage |-> <<>>]

NotReturned == [returned |-> FALSE, resNil |-> TRUE, errNil |-> TRUE, errText |-> <<>>]

\* Mutant: return nil, err
ReturnNoResult(err) == [returned |-> TRUE, resNil |-> TRUE, errNil |-> FALSE, errText |-> err]

\* return result, err
Return(err) == [returned |-> TRUE, resNil |-> FALSE, errNil |-> FALSE, errText |-> err]

\* return result, nil
ReturnOk == [returned |-> TRUE, resNil |-> FALSE, errNil |-> TRUE, errText |-> <<>>]

\* Mutant: any failure with nothing stored is still reported as partial.
FinalStatusNeverFailed(res) ==
    IF res.FailedEmbeddings = 0 /\ res.FailedStorage = 0 THEN StatusCompleted
    ELSE StatusPartial

\* Mutant: embedding failures are ignored by the classification.
FinalStatusStorageOnly(res) ==
    IF res.FailedStorage = 0 THEN StatusCompleted
    ELSE IF res.VectorsStored > 0 THEN StatusPartial
    ELSE StatusFailed

\* Mutant: a run with failures counts as partial even when nothing was stored
\* only if storage failed; embedding-only failures are reported as failed.
FinalStatusEmbeddingFailureFails(res) ==
    IF res.FailedEmbeddings = 0 /\ res.FailedStorage = 0 THEN StatusCompleted
    ELSE IF res.VectorsStored > 0 /\ res.FailedEmbeddings = 0 THEN StatusPartial
    ELSE StatusFailed

\* The final classification (lines 1583-1591).
FinalStatus(res) ==
    IF res.FailedEmbeddings = 0 /\ res.FailedStorage = 0 THEN StatusCompleted
    ELSE IF res.VectorsStored > 0 THEN StatusPartial
    ELSE StatusFailed

\* Mutant: a partial outcome is returned without an error.
FinalReturnPartialNil(res, t) ==
    IF res.Status = StatusFailed
    THEN Return(ProcessingErrorText("overall_processing",
             <<"vectorization failed for traceID ", t, ": ">> \o res.ErrorMessage,
             FALSE, <<>>))
    ELSE ReturnOk

\* The return statements after the classification (lines 1633-1650).
FinalReturn(res, t) ==
    IF res.Status = StatusFailed
    THEN Return(ProcessingErrorText("overall_processing",
             <<"vectorization failed for traceID ", t, ": ">> \o res.ErrorMessage,
             FALSE, <<>>))
    ELSE IF res.Status = StatusPartial
    THEN Return(ProcessingErrorText("partial_processing",
             <<"partial vectorization failure for traceID ", t, ": ",
               ToString(res.VectorsStored), "/", ToString(res.TotalPapers),
               " papers processed successfully">>,
             FALSE, <<>>))
    ELSE ReturnOk


\* Number of invocations followed in one behaviour.
MaxRuns == 2

TraceIDs == {"", "t1", "t2"}

\* Papers of the papers table carrying trace id t: title and abstract, a
\* title that ends with a carriage return only, a blank title only, and a
\* record without key.
Pool(t) ==
    {[PaperID |-> "p1", TraceID |-> t, Title |-> <<"T">>, Abstract |-> <<"A">>],
     [PaperID |-> "p2", TraceID |-> t, Title |-> <<"T", "\r">>, Abstract |-> <<>>],
     [PaperID |-> "p3", TraceID |-> t, Title |-> <<" ">>, Abstract |-> <<>>],
     [PaperID |-> "", TraceID |-> t, Title |-> <<"T">>, Abstract |-> <<"A">>]}

\* The i-th paper of a long trace.
RerunPaper(i, t) ==
    [PaperID |-> "q" \o ToString(i), TraceID |-> t, Title |-> <<"T">>, Abstract |-> <<>>]

Stores(t) ==
    [items : SeqsUpTo(Pool(t), MaxItems), pageSize : {1, 2},
     failAt : {0, 1, 2}, failKind : {"query", "unmarshal"}, endless : BOOLEAN]

\* The responses a 200 body can be decoded to.  JSON has no NaN: a body
\* naming one does not parse.
Responses ==
    [Embedding : {<<>>, <<"0.1", "0.2">>},
     ModelVersion : {"", "m1"}, Dimension : {1, 2}]

HTTPOutcomes ==
    [kind : {"newrequest", "transport", "readbody", "statusraw", "status", "badjson"},
     resp : {NoResponse}]
    \cup [kind : {"ok"}, resp : Responses]

\* Answers of the vectors table to the write of a chunk of n requests.  The
\* SDK client returns a non-nil output with every error.
WriteAnswers(n) ==
    {[err |-> TRUE, outNil |-> FALSE, unprocessed |-> {}]}
    \cup [err : {FALSE}, outNil : {FALSE}, unprocessed : SUBSET (1..n)]

\* The item of the vectors table a record becomes, by its key (paper_id,
\* vector_type).
VectorItem(record) ==
    [PaperID |-> record.PaperID, VectorType |-> record.VectorType]

SameKey(a, b) == a.PaperID = b.PaperID /\ a.VectorType = b.VectorType

\* Mutant: a put adds an item whether or not the key is there.
PutItemNew(tbl, item) == tbl (+) SetToBag({item})

\* A PutRequest on the table: the item replaces the one of the same key.
PutItem(tbl, item) ==
    LET same == {e \in BagToSet(tbl) : SameKey(e, item)}
        replaced == [e \in same |-> CopiesIn(e, tbl)]
    IN  (tbl (-) replaced) (+) SetToBag({item})

\* The puts of the records lo..hi the table accepted, in order, evaluated by
\* halving: the table after the first half is computed, then the second half
\* is put into it.
RECURSIVE PutItems(_, _, _, _)
PutItems(tbl, records, lo, hi) ==
    IF lo > hi THEN tbl
    ELSE IF lo = hi THEN PutItem(tbl, VectorItem(records[lo]))
    ELSE LET mid == (lo + hi) \div 2
             first == PutItems(tbl, records, lo, mid)
         IN IF IsABag(first) THEN PutItems(first, records, mid + 1, hi) ELSE first

\* What BatchWriteItem leaves in the table.
BatchWriteItem(tbl, accepted) == PutItems(tbl, accepted, 1, Len(accepted))

\* matched: the usable records the store holds for the trace id; embedded:
\* the positions of the texts whose embedding call succeeded; cancelled: the
\* invocation context was cancelled; atCancel: the embeddings generated by
\* then; prior: the statuses the earlier invocations for the same source
\* ended with (SpecRerun); badURL: the base URL of the embedding client is
\* one that NewRequestWithContext rejects.
NoEnv ==
    [retrieved |-> FALSE, embFailed |-> 0, writerCalled |-> FALSE, writerErr |-> FALSE,
     handed |-> 0, stored |-> 0, storeFailed |-> 0, matched |-> 0, embedded |-> <<>>,
     cancelled |-> FALSE, atCancel |-> 0, prior |-> <<>>, badURL |-> FALSE]

\* The number of records of the store with a key, a trace id and a title or
\* an abstract.
Matching(store) ==
    Cardinality({j \in 1..Len(store.items) :
                    /\ store.items[j].PaperID # ""
                    /\ store.items[j].TraceID # ""
                    /\ ~(store.items[j].Title = <<>> /\ store.items[j].Abstract = <<>>)})

\* Mutant: a failed call ends the embedding loop.
AfterEmbeddingAborting(i, n, failed) ==
    IF i = n \/ failed THEN "store" ELSE "embedding"

\* The range loop over combinedTexts (line 1485) and its `continue` (line
\* 1513): after item i of n the loop goes on to item i+1, whether the call
\* failed or not.
AfterEmbedding(i, n, failed) ==
    IF i = n THEN "store" ELSE "embedding"

\* Mutant: the writer is called even without a record.
NothingToStoreNever(records) == FALSE

\* The test of line 1547.
NothingToStore(records) == Len(records) = 0

\* Mutant: embedding failures are added to the storage failures.
StorageStatisticsConflated(res, batchResult) ==
    [res EXCEPT !.VectorsStored = batchResult.SuccessCount,
                !.FailedStorage = Len(batchResult.FailedItems) + res.FailedEmbeddings]

\* The storage statistics of lines 1578-1580.
StorageStatistics(res, batchResult) ==
    [res EXCEPT !.VectorsStored = batchResult.SuccessCount,
                !.FailedStorage = Len(batchResult.FailedItems)]

QueryCalls(queries) == [i \in 1..Len(queries) |-> [kind |-> "query", arg |-> queries[i]]]

VecInit ==
    /\ pc = "idle"
    /\ traceID = ""
    /\ texts = <<>>
    /\ idx = 1
    /\ vectorRecords = <<>>
    /\ result = NewResult("")
    /\ ret = NotReturned
    /\ calls = <<>>
    /\ table = EmptyBag
    /\ env = NoEnv
    /\ runs = 0

\* processVectorization up to the embedding loop: input validation, retrieval,
\* the no-papers return (lines 1412-1483).
\* t: the trace id; store: the papers table; base: what is known of the
\* invocation when it starts.
VecStartWith(t, store, base) ==
         /\ traceID' = t
         /\ runs' = runs + 1
         /\ idx' = 1
         /\ vectorRecords' = <<>>
         /\ IF t = ""
            THEN LET err == ProcessingErrorText("validation",
                                <<"traceID cannot be empty">>, FALSE, <<>>)
                 IN /\ result' = [NewResult(t) EXCEPT !.Status = StatusFailed,
                                                      !.ErrorMessage = err]
                    /\ ret' = Return(err)
                    /\ calls' = <<>>
                    /\ texts' = <<>>
                    /\ env' = base
                    /\ pc' = "done"
            ELSE LET r == GetCombinedTextsByTraceID(t, store) IN
                 /\ calls' = QueryCalls(r.queries)
                 /\ IF ~r.errNil
                    THEN LET err == ProcessingErrorText("data_retrieval",
                                        <<"failed to retrieve papers for vectorization">>,
                                        TRUE, r.errText)
                         IN /\ result' = [NewResult(t) EXCEPT !.Status = StatusFailed,
                                                              !.ErrorMessage = err]
                            /\ ret' = Return(err)
                            /\ texts' = <<>>
                            /\ env' = [base EXCEPT !.matched = Matching(store)]
                            /\ pc' = "done"
                    ELSE /\ texts' = r.texts
                         /\ env' = [base EXCEPT !.retrieved = TRUE,
                                                !.matched = Matching(store)]
                         /\ IF Len(r.texts) = 0
                            THEN /\ result' = [NewResult(t) EXCEPT !.Status = StatusCompleted]
                                 /\ ret' = ReturnOk
                                 /\ pc' = "done"
                            ELSE /\ result' = [NewResult(t) EXCEPT
                                                  !.Status = StatusInProgress,
                                                  !.TotalPapers = Len(r.texts)]
                                 /\ ret' = NotReturned
                                 /\ pc' = "embedding"

VecStart ==
    /\ pc = "idle"
    /\ runs < MaxRuns
    /\ \E t \in TraceIDs : \E store \in Stores(t) : VecStartWith(t, store, NoEnv)
    /\ UNCHANGED table

\* One iteration of the embedding loop (lines 1485-1537); outcomes: what the
\* HTTP call of GenerateEmbedding can come to.  The client keeps its base URL
\* for the invocation: NewRequestWithContext rejects it at every call or at
\* none.
VecEmbedWith(outcomes) ==
    /\ pc = "embedding"
    /\ \E http \in {h \in outcomes :
                      idx > 1 => ((h.kind = "newrequest") <=> env.badURL)} :
         LET combinedText == texts[idx]
             r == GenerateEmbedding(combinedText.Text, http)
         IN /\ calls' = calls \o <<[kind |-> "embed", arg |-> combinedText.Text,
                                       item |-> idx]>>
                          \o (IF r.requested THEN <<[kind |-> "http", arg |-> r.sent]>>
                              ELSE <<>>)
            /\ IF ~r.errNil
               THEN /\ result' = [result EXCEPT !.FailedEmbeddings = @ + 1]
                    /\ env' = [env EXCEPT !.embFailed = @ + 1,
                                          !.badURL = (http.kind = "newrequest")]
                    /\ UNCHANGED vectorRecords
               ELSE /\ vectorRecords' = Append(vectorRecords,
                          CreateVectorRecord(combinedText.PaperID, combinedText.Text,
                              traceID, r.resp.Embedding, r.resp.ModelVersion))
                    /\ result' = [result EXCEPT !.EmbeddingsGenerated = @ + 1]
                    /\ env' = [env EXCEPT !.embedded = Append(@, idx)]
            /\ pc' = AfterEmbedding(idx, Len(texts), ~r.errNil)
    /\ idx' = idx + 1
    /\ UNCHANGED <<traceID, texts, ret, table, runs>>

VecEmbed == VecEmbedWith(HTTPOutcomes)

\* processVectorization after the embedding loop: the no-embeddings return,
\* the call of the storage writer, the classification and the return (lines
\* 1546-1650).  The writer is BatchStoreVectors on the vectors table; the
\* VectorStorageInterface also lets a writer return an error (ifaceErr), the
\* branch of lines 1565-1576.  ifaceErrs: whether the writer can return an
\* error; answers: the answers the vectors table can give to a chunk.
VecStoreWith(ifaceErrs, answers) ==
    /\ pc = "store"
    /\ IF NothingToStore(vectorRecords)
       THEN LET err == ProcessingErrorText("embedding_generation",
                           <<"no embeddings were generated successfully">>, FALSE, <<>>)
            IN /\ result' = [result EXCEPT !.Status = StatusFailed, !.ErrorMessage = err]
               /\ ret' = Return(err)
               /\ UNCHANGED <<calls, table, env>>
       ELSE \E ifaceErr \in ifaceErrs,
               store \in [1..NumChunks(Len(vectorRecords)) -> answers] :
            IF ifaceErr
            THEN LET err == ProcessingErrorText("vector_storage",
                                <<"failed to store vector records">>, TRUE,
                                <<"writer error">>)
                 IN /\ result' = [result EXCEPT !.Status = StatusFailed,
                                                !.ErrorMessage = err]
                    /\ ret' = Return(err)
                    /\ calls' = Append(calls, [kind |-> "writer", arg |-> vectorRecords])
                    /\ env' = [env EXCEPT !.writerCalled = TRUE, !.writerErr = TRUE,
                                          !.handed = Len(vectorRecords),
                                          !.storeFailed = Len(vectorRecords)]
                    /\ UNCHANGED table
            ELSE LET batchResult == BatchStoreVectors(vectorRecords, store)
                     counted == StorageStatistics(result, batchResult)
                     status == FinalStatus(counted)
                     final == [counted EXCEPT
                                 !.Status = status,
                                 !.ErrorMessage =
                                     IF status = StatusFailed
                                     THEN <<"all vectorization operations failed">>
                                     ELSE @]
                 IN /\ result' = final
                    /\ ret' = FinalReturn(final, traceID)
                    /\ calls' = Append(calls, [kind |-> "writer", arg |-> vectorRecords])
                                \o [i \in 1..Len(batchResult.requests) |->
                                      [kind |-> "write", arg |-> batchResult.requests[i]]]
                    /\ env' = [env EXCEPT
                                 !.writerCalled = TRUE,
                                 !.handed = Len(vectorRecords),
                                 !.stored = Len(batchResult.accepted),
                                 !.storeFailed = Len(vectorRecords)
                                                 - Len(batchResult.accepted)]
                    /\ table' = BatchWriteItem(table, batchResult.accepted)
    /\ pc' = "done"
    /\ UNCHANGED <<traceID, texts, idx, vectorRecords, runs>>

VecStore == VecStoreWith(BOOLEAN, WriteAnswers(Min(Len(vectorRecords), batchSize)))

\* A direct call of DataRetriever.GetCombinedTextsByTraceID.
RetrieverCall ==
    /\ pc = "idle"
    /\ runs < MaxRuns
    /\ \E t \in TraceIDs : \E store \in Stores(t) :
         LET r == GetCombinedTextsByTraceID(t, store) IN
         /\ traceID' = t
         /\ texts' = r.texts
         /\ calls' = QueryCalls(r.queries)
         /\ ret' = [returned |-> TRUE, resNil |-> Len(r.texts) = 0,
                    errNil |-> r.errNil, errText |-> r.errText]
         /\ env' = IF t = "" THEN NoEnv
                   ELSE [NoEnv EXCEPT !.retrieved = r.errNil, !.matched = Matching(store)]
    /\ runs' = runs + 1
    /\ pc' = "rdone"
    /\ UNCHANGED <<idx, vectorRecords, result, table>>

\* ---- cancellation of the invocation context (SpecCancel) ----
\* No code of the stage reads ctx.Done or ctx.Err: a cancelled context shows
\* only in the calls that take it, each of which then returns an error.

\* The papers tables whose query fails: QueryWithContext on a cancelled
\* context, at the first page or at the second.
CancelledStores(t) ==
    {store \in Stores(t) : store.failKind = "query" /\ store.failAt \in {1, 2}}

\* httpClient.Do on a request of a cancelled context fails; a base URL that
\* NewRequestWithContext rejects fails before it.
CancelledHTTPOutcomes ==
    {http \in HTTPOutcomes : http.kind \in {"newrequest", "transport"}}

\* BatchWriteItemWithContext on a cancelled context returns an error (the
\* SDK client with a non-nil output).
CancelledWriteAnswers == {[err |-> TRUE, outNil |-> FALSE, unprocessed |-> {}]}

\* processVectorization starts and the context is cancelled during the
\* retrieval.
VecStartCancelled ==
    /\ pc = "idle"
    /\ runs < MaxRuns
    /\ \E t \in TraceIDs : \E store \in CancelledStores(t) :
         VecStartWith(t, store, [NoEnv EXCEPT !.cancelled = TRUE])
    /\ UNCHANGED table

\* The context is cancelled between two steps of the embedding loop or
\* before the store write.
VecCancel ==
    /\ pc \in {"embedding", "store"}
    /\ ~env.cancelled
    /\ env' = [env EXCEPT !.cancelled = TRUE, !.atCancel = Len(env.embedded)]
    /\ UNCHANGED <<pc, traceID, texts, idx, vectorRecords, result, ret, calls, table, runs>>

VecEmbedCancelled == env.cancelled /\ VecEmbedWith(CancelledHTTPOutcomes)

VecStoreCancelled == env.cancelled /\ VecStoreWith(BOOLEAN, CancelledWriteAnswers)

VecStartLive == ~env.cancelled /\ VecStart

VecEmbedLive == ~env.cancelled /\ VecEmbed

VecStoreLive == ~env.cancelled /\ VecStore

\* The next invocation starts from a fresh working set; the vectors table stays.
VecNextInvocation ==
    /\ pc \in {"done", "rdone"}
    /\ runs < MaxRuns
    /\ pc' = "idle"
    /\ traceID' = ""
    /\ texts' = <<>>
    /\ idx' = 1
    /\ vectorRecords' = <<>>
    /\ result' = NewResult("")
    /\ ret' = NotReturned
    /\ calls' = <<>>
    /\ env' = NoEnv
    /\ UNCHANGED <<table, runs>>


(***************************************************************************)
(* Ingestion writer (batch-processor/dynamodb/writer.go)                   *)
(***************************************************************************)
\* MaxBatchSize of the ingestion writer.
MaxBatchSize == 25

\* maxRetries of executeBatchWriteWithRetry.
maxRetries == 3

\* The unprocessed items of one answer of the store: none of the submitted
\* requests, all of them, the first one only, or all but the first.
UnprocessedOf(current, keep) ==
    CASE keep = "all" -> current
      [] keep = "head" -> <<Head(current)>>
      [] keep = "tail" -> Tail(current)
      [] OTHER -> <<>>

\* executeBatchWriteWithRetry from attempt `attempt` (0-based) on.  script:
\* the store's answers to the successive calls for this chunk.  st: the
\* current requests, the request lists submitted and the items written.
RECURSIVE RetryLoop(_, _, _)
RetryLoop(script, attempt, st) ==
    IF ~(attempt < maxRetries /\ Len(st.current) > 0)
    THEN [st EXCEPT !.errNil = FALSE,
             !.errText = <<"failed to process ", ToString(Len(st.current)),
                           " items after ", ToString(maxRetries), " retries">>]
    ELSE LET answer == script[attempt + 1]
             sent == Append(st.calls, st.current)
         IN IF answer.err
            THEN [st EXCEPT !.calls = sent, !.errNil = FALSE,
                     !.errText = <<"batch write failed on attempt ",
                                   ToString(attempt + 1), ": ", "store error">>]
            ELSE LET unprocessedItems == UnprocessedOf(st.current, answer.keep)
                     written == SelectSeq(st.current,
                                    LAMBDA r : r \notin Range(unprocessedItems))
                 IN IF Len(unprocessedItems) > 0
                    THEN RetryLoop(script, attempt + 1,
                             [st EXCEPT !.calls = sent,
                                        !.current = unprocessedItems,
                                        !.accepted = @ \o written])
                    ELSE [st EXCEPT !.calls = sent, !.accepted = @ \o written]

\* Mutant: one call only; items left unprocessed by it fail the chunk.
executeBatchWriteOnce(writeRequests, script) ==
    LET answer == script[1]
        left == UnprocessedOf(writeRequests, answer.keep)
    IN [current |-> IF answer.err THEN writeRequests ELSE left,
        calls |-> <<writeRequests>>,
        accepted |-> IF answer.err THEN <<>>
                     ELSE SelectSeq(writeRequests, LAMBDA r : r \notin Range(left)),
        errNil |-> ~answer.err /\ left = <<>>,
        errText |-> IF answer.err
                    THEN <<"batch write failed on attempt ", "1", ": ", "store error">>
                    ELSE IF left = <<>> THEN <<>>
                    ELSE <<"failed to process ", ToString(Len(left)), " items after ",
                           "1", " retries">>]

\* executeBatchWriteWithRetry (lines 123-162).
executeBatchWriteWithRetry(writeRequests, script) ==
    RetryLoop(script, 0, [current |-> writeRequests, calls |-> <<>>, accepted |-> <<>>,
                          errNil |-> TRUE, errText |-> <<>>])

\* Writer.processBatch.  MarshalMap cannot fail on a Paper (strings and string
\* lists only), so every paper of the chunk becomes a write request.
WriterProcessBatch(papers, script) ==
    IF Len(papers) = 0
    THEN [current |-> <<>>, calls |-> <<>>, accepted |-> <<>>, errNil |-> TRUE,
          errText |-> <<>>]
    ELSE IF Len(papers) > MaxBatchSize
    THEN [current |-> <<>>, calls |-> <<>>, accepted |-> <<>>, errNil |-> FALSE,
          errText |-> <<"batch size ", ToString(Len(papers)), " exceeds maximum ",
                        ToString(MaxBatchSize)>>]
    ELSE executeBatchWriteWithRetry(papers, script)

\* The chunk loop of BatchUpsert from offset i (0-based) on: it returns at the
\* first chunk that fails (line 66).
RECURSIVE PlainUpsertLoop(_, _, _, _, _)
PlainUpsertLoop(papers, i, k, store, acc) ==
    IF ~(i < Len(papers)) THEN acc
    ELSE LET end == Min(i + MaxBatchSize, Len(papers))
             batch == SubSeq(papers, i + 1, end)
             r == WriterProcessBatch(batch, store[k])
             next == [acc EXCEPT !.calls = @ \o r.calls,
                                 !.accepted = @ \o r.accepted,
                                 !.chunks = Append(@, r)]
         IN IF ~r.errNil
            THEN [next EXCEPT !.errNil = FALSE,
                     !.errText = <<"failed to process batch ", ToString(i), "-",
                                   ToString(end - 1), ": ">> \o r.errText]
            ELSE PlainUpsertLoop(papers, i + MaxBatchSize, k + 1, store, next)

NoPlainResult ==
    [errNil |-> TRUE, errText |-> <<>>, calls |-> <<>>, accepted |-> <<>>,
     chunks |-> <<>>]

\* BatchUpsert: its error, the request lists submitted to the store, the items
\* the store wrote, and what processBatch returned for each chunk tried.
BatchUpsert(papers, store) ==
    IF Len(papers) = 0 THEN NoPlainResult
    ELSE PlainUpsertLoop(papers, 0, 1, store, NoPlainResult)

\* The chunk loop of BatchUpsertWithStats from offset i (0-based) on; the k-th
\* chunk is answered by store[k].
RECURSIVE UpsertLoop(_, _, _, _, _)
UpsertLoop(papers, i, k, store, acc) ==
    IF ~(i < Len(papers)) THEN acc
    ELSE LET end == Min(i + MaxBatchSize, Len(papers))
             batch == SubSeq(papers, i + 1, end)
             r == WriterProcessBatch(batch, store[k])
             stats == IF ~r.errNil
                      THEN [acc.stats EXCEPT !.FailedItems = @ + Len(batch),
                                             !.FailedBatches = @ + 1]
                      ELSE [acc.stats EXCEPT !.SuccessItems = @ + Len(batch),
                                             !.SuccessBatches = @ + 1]
         IN UpsertLoop(papers, i + MaxBatchSize, k + 1, store,
                [stats |-> stats, calls |-> acc.calls \o r.calls,
                 accepted |-> acc.accepted \o r.accepted,
                 chunks |-> Append(acc.chunks, r),
                 errNil |-> TRUE])

\* Mutant: the items the store wrote are counted as SuccessItems, also those
\* of a chunk that failed in the end.
BatchUpsertWithStatsCountingWritten(papers, store) ==
    LET stats == [TotalItems |-> Len(papers),
                  BatchCount |-> (Len(papers) + MaxBatchSize - 1) \div MaxBatchSize,
                  SuccessItems |-> 0, FailedItems |-> 0,
                  SuccessBatches |-> 0, FailedBatches |-> 0]
        r == UpsertLoop(papers, 0, 1, store,
                 [stats |-> stats, calls |-> <<>>, accepted |-> <<>>, chunks |-> <<>>,
                  errNil |-> TRUE])
    IN [r EXCEPT !.stats.SuccessItems = Len(r.accepted)]

\* Mutant: the loop ends at the first chunk that fails, as BatchUpsert's does.
BatchUpsertWithStatsAborting(papers, store) ==
    LET p == BatchUpsert(papers, store)
        ok == {k \in 1..Len(p.chunks) : p.chunks[k].errNil}
        bad == {k \in 1..Len(p.chunks) : ~p.chunks[k].errNil}
        size(k) == Min(k * MaxBatchSize, Len(papers)) - (k - 1) * MaxBatchSize
    IN [stats |-> [TotalItems |-> Len(papers),
                   BatchCount |-> (Len(papers) + MaxBatchSize - 1) \div MaxBatchSize,
                   SuccessItems |-> IF ok = {} THEN 0
                                    ELSE Cardinality(ok) * MaxBatchSize
                                         - (IF Cardinality(ok) * MaxBatchSize > Len(papers)
                                            THEN Cardinality(ok) * MaxBatchSize - Len(papers)
                                            ELSE 0),
                   FailedItems |-> IF bad = {} THEN 0
                                   ELSE size(CHOOSE k \in bad : TRUE),
                   SuccessBatches |-> Cardinality(ok),
                   FailedBatches |-> Cardinality(bad)],
        calls |-> p.calls, accepted |-> p.accepted, chunks |-> p.chunks,
        errNil |-> TRUE]

\* Mutant: the list is handed to the store as one chunk.
BatchUpsertWithStatsUnchunked(papers, store) ==
    LET stats == [TotalItems |-> Len(papers),
                  BatchCount |-> (Len(papers) + MaxBatchSize - 1) \div MaxBatchSize,
                  SuccessItems |-> 0, FailedItems |-> 0,
                  SuccessBatches |-> 0, FailedBatches |-> 0]
    IN IF Len(papers) = 0
       THEN [stats |-> stats, calls |-> <<>>, accepted |-> <<>>, chunks |-> <<>>,
             errNil |-> TRUE]
       ELSE LET r == executeBatchWriteWithRetry(papers, store[1])
            IN [stats |-> IF r.errNil
                          THEN [stats EXCEPT !.SuccessItems = Len(papers),
                                             !.SuccessBatches = 1]
                          ELSE [stats EXCEPT !.FailedItems = Len(papers),
                                             !.FailedBatches = 1],
                calls |-> r.calls, accepted |-> r.accepted, chunks |-> <<r>>,
                errNil |-> TRUE]

\* BatchUpsertWithStats: the statistics, the nil-ness of its error (every
\* return of it is "return stats, nil"), the request lists submitted to the
\* store, the items the store wrote, and what processBatch returned for each
\* chunk.
BatchUpsertWithStats(papers, store) ==
    LET stats == [TotalItems |-> Len(papers),
                  BatchCount |-> (Len(papers) + MaxBatchSize - 1) \div MaxBatchSize,
                  SuccessItems |-> 0, FailedItems |-> 0,
                  SuccessBatches |-> 0, FailedBatches |-> 0]
    IN IF Len(papers) = 0
       THEN [stats |-> stats, calls |-> <<>>, accepted |-> <<>>, chunks |-> <<>>,
             errNil |-> TRUE]
       ELSE UpsertLoop(papers, 0, 1, store,
                [stats |-> stats, calls |-> <<>>, accepted |-> <<>>, chunks |-> <<>>,
                 errNil |-> TRUE])

(***************************************************************************)
(* S3 event processor (batch-processor/processor/processor.go)             *)
(***************************************************************************)
\* Number of S3 records of one event.
MaxObjects == 2

\* convertMapToPaper: paper_id, else id; "" stands for a missing, non-string
\* or empty attribute.
convertMapToPaper(data, trace) ==
    LET key == IF data.paper_id # "" THEN data.paper_id
               ELSE IF data.id # "" THEN data.id ELSE ""
    IN [errNil |-> key # "",
        paper |-> [PaperID |-> key, Title |-> data.title, TraceID |-> trace]]

\* parseBatchData: data.format is "array" (the bytes parse as a JSON array of
\* objects) or "lines" (newline-delimited JSON); maps that do not convert are
\* skipped; only the line format fails when no paper is left.
parseBatchData(data, trace) ==
    LET conv == [i \in 1..Len(data.maps) |-> convertMapToPaper(data.maps[i], trace)]
        ok == SelectSeq(conv, LAMBDA c : c.errNil)
        papers == [i \in 1..Len(ok) |-> ok[i].paper]
    IN IF data.format = "array" THEN [errNil |-> TRUE, papers |-> papers]
       ELSE IF Len(papers) = 0 THEN [errNil |-> FALSE, papers |-> <<>>]
       ELSE [errNil |-> TRUE, papers |-> papers]

\* The loop over the S3 records (lines 264-313): allPapers and lastError.
RECURSIVE CollectPapers(_, _, _)
CollectPapers(objects, trace, acc) ==
    IF Len(objects) = 0 THEN acc
    ELSE LET object == Head(objects) IN
         IF object.downloadErr
         THEN CollectPapers(Tail(objects), trace,
                  [acc EXCEPT !.lastErrNil = FALSE,
                              !.lastError = <<"failed to download/decompress ",
                                              object.key, ": ", "s3 error">>])
         ELSE LET parsed == parseBatchData(object.data, trace) IN
              IF ~parsed.errNil
              THEN CollectPapers(Tail(objects), trace,
                       [acc EXCEPT !.lastErrNil = FALSE,
                                   !.lastError = <<"failed to parse batch data from ",
                                                   object.key, ": ",
                                                   "no valid papers found in data">>])
              ELSE CollectPapers(Tail(objects), trace,
                       [acc EXCEPT !.allPapers = @ \o parsed.papers])

NoStats == [set |-> FALSE]

NewProcessResult(trace) ==
    [TraceID |-> trace, ProcessedCount |-> 0, Status |-> "success",
     ErrorMessage |-> <<>>, DeduplicationStats |-> NoStats, UpsertStats |-> NoStats]

\* Mutant: the loop over the S3 records ends at the first object that cannot
\* be downloaded or parsed.
ProcessCollectAborting(objects, trace) ==
    LET bad == {k \in 1..Len(objects) :
                   \/ objects[k].downloadErr
                   \/ ~parseBatchData(objects[k].data, trace).errNil}
        upto == IF bad = {} THEN Len(objects)
                ELSE CHOOSE k \in bad : \A j \in bad : k <= j
        got == CollectPapers(SubSeq(objects, 1, upto), trace,
                   [allPapers |-> <<>>, lastErrNil |-> TRUE, lastError |-> <<>>])
        dedup == DeduplicateWithStats(got.allPapers)
    IN [trace |-> trace,
        allPapers |-> got.allPapers,
        parsed |-> Len(got.allPapers),
        lastErrNil |-> got.lastErrNil,
        lastError |-> got.lastError,
        papers |-> IF Len(got.allPapers) > 0 THEN dedup.papers ELSE <<>>,
        stats |-> IF Len(got.allPapers) > 0
                  THEN [set |-> TRUE, stats |-> dedup.stats] ELSE NoStats]

\* ProcessS3Event up to the call of the writer: the trace id, what the loop
\* over the S3 records collected, and the deduplication (lines 249-334).
ProcessCollect(objects, trace) ==
    LET got == CollectPapers(objects, trace,
                   [allPapers |-> <<>>, lastErrNil |-> TRUE, lastError |-> <<>>])
        dedup == DeduplicateWithStats(got.allPapers)
    IN [trace |-> trace,
        allPapers |-> got.allPapers,
        parsed |-> Len(got.allPapers),
        lastErrNil |-> got.lastErrNil,
        lastError |-> got.lastError,
        papers |-> IF Len(got.allPapers) > 0 THEN dedup.papers ELSE <<>>,
        stats |-> IF Len(got.allPapers) > 0
                  THEN [set |-> TRUE, stats |-> dedup.stats] ELSE NoStats]

\* ProcessS3Event from the call of the writer to the return (lines 336-418).
\* ifaceErr: the DynamoWriter returns an error (the branch of lines 339-349;
\* BatchUpsertWithStats never does).
ProcessFinish(mid, store, ifaceErr) ==
    LET papers == mid.papers
        called == mid.parsed > 0 /\ Len(papers) > 0
        up == BatchUpsertWithStats(papers, store)
        upsertErr == <<"failed to upsert papers to DynamoDB: ", "writer error">>
        r1 == [NewProcessResult(mid.trace) EXCEPT !.DeduplicationStats = mid.stats]
        r2 == IF ~called THEN r1
              ELSE IF ifaceErr
              THEN [r1 EXCEPT !.Status = "failed", !.ErrorMessage = upsertErr]
              ELSE [r1 EXCEPT
                      !.UpsertStats = [set |-> TRUE, stats |-> up.stats],
                      !.ProcessedCount = up.stats.SuccessItems,
                      !.Status = IF up.stats.FailedItems > 0 THEN "partial_success" ELSE @,
                      !.ErrorMessage = IF up.stats.FailedItems > 0
                                       THEN <<ToString(up.stats.FailedItems),
                                              " items failed to upsert">>
                                       ELSE @]
        lastErrNil == mid.lastErrNil /\ ~(called /\ ifaceErr)
        lastError == IF called /\ ifaceErr THEN upsertErr ELSE mid.lastError
        r3 == IF ~lastErrNil
              THEN [r2 EXCEPT
                      !.Status = IF r2.ProcessedCount = 0 THEN "failed"
                                 ELSE "partial_success",
                      !.ErrorMessage = IF r2.ErrorMessage = <<>> THEN lastError ELSE @]
              ELSE r2
    IN [result |-> r3,
        ret |-> ReturnOk,
        env |-> [writerCalled |-> called,
                 handed |-> IF called THEN Len(papers) ELSE 0,
                 calls |-> IF called /\ ~ifaceErr THEN up.calls ELSE <<>>,
                 accepted |-> IF called /\ ~ifaceErr THEN up.accepted ELSE <<>>]]

\* ProcessS3Event for a non-empty event.
ProcessS3Event(objects, trace, store, ifaceErr) ==
    ProcessFinish(ProcessCollect(objects, trace), store, ifaceErr)

UUIDs == {"u1", "u2"}

\* What the ingestion feed holds: maps with a paper_id, with an id only, and
\* without a key.
FeedMaps ==
    {[paper_id |-> "k1", id |-> "", title |-> "A"],
     [paper_id |-> "k1", id |-> "", title |-> "B"],
     [paper_id |-> "", id |-> "k2", title |-> "A"],
     [paper_id |-> "", id |-> "", title |-> "A"]}

S3Objects ==
    [key : {"o1"}, downloadErr : {TRUE}, data : {[format |-> "array", maps |-> <<>>]}]
    \cup [key : {"o1"}, downloadErr : {FALSE},
          data : [format : {"array", "lines"}, maps : SeqsUpTo(FeedMaps, 2)]]

StoreAnswers ==
    {[err |-> TRUE, keep |-> "none"]}
    \cup [err : {FALSE}, keep : {"none", "all", "head", "tail"}]

NoIngestEnv == [writerCalled |-> FALSE, handed |-> 0, calls |-> <<>>, accepted |-> <<>>]

NoMid ==
    [trace |-> "", allPapers |-> <<>>, parsed |-> 0, lastErrNil |-> TRUE,
     lastError |-> <<>>, papers |-> <<>>, stats |-> NoStats]

IngestInit ==
    /\ iPc = "idle"
    /\ iMid = NoMid
    /\ iResult = NewProcessResult("")
    /\ iRet = NotReturned
    /\ iEnv = NoIngestEnv
    /\ iEvent = <<>>

\* ProcessS3Event, first part: the empty event is rejected with a nil result
\* (lines 245-247); otherwise a trace id is minted, the objects are downloaded
\* and parsed and the papers deduplicated.
\* events: the events that can arrive; recorded: whether iEvent keeps the
\* event.
IngestReceiveFrom(events, recorded) ==
    /\ iPc = "idle"
    /\ \E objects \in events :
         /\ IF Len(objects) = 0
            THEN /\ iRet' = [returned |-> TRUE, resNil |-> TRUE, errNil |-> FALSE,
                             errText |-> <<"no S3 records to process">>]
                 /\ iPc' = "done"
                 /\ UNCHANGED iMid
            ELSE \E trace \in UUIDs :
                 /\ iMid' = ProcessCollect(objects, trace)
                 /\ iPc' = "write"
                 /\ UNCHANGED iRet
         /\ iEvent' = IF recorded THEN objects ELSE iEvent
    /\ UNCHANGED <<iResult, iEnv>>

IngestReceive == IngestReceiveFrom(SeqsUpTo(S3Objects, MaxObjects), FALSE)

\* ProcessS3Event, second part: the upsert, the status and the return.
\* ifaceErrs: whether the writer can return an error; scripts: the answers
\* the papers table can give to the calls for a chunk.
IngestWriteWith(ifaceErrs, scripts) ==
    /\ iPc = "write"
    /\ \E ifaceErr \in ifaceErrs, script \in scripts :
         LET store == [k \in 1..NumChunks(Len(iMid.papers)) |-> script]
             r == ProcessFinish(iMid, store, ifaceErr)
         IN /\ iResult' = r.result
            /\ iRet' = r.ret
            /\ iEnv' = r.env
    /\ iPc' = "done"
    /\ UNCHANGED <<iMid, iEvent>>

IngestWrite == IngestWriteWith(BOOLEAN, [1..maxRetries -> StoreAnswers])

\* ---- the event kept with the invocation (SpecEvent) ----
\* An S3 object: it cannot be downloaded, or it holds at most one map, as a
\* JSON array or as lines.
EventObjects ==
    [key : {"o1"}, downloadErr : {TRUE}, data : {[format |-> "array", maps |-> <<>>]}]
    \cup [key : {"o1"}, downloadErr : {FALSE},
          data : [format : {"array", "lines"}, maps : SeqsUpTo(FeedMaps, 1)]]

EventReceive == IngestReceiveFrom(SeqsUpTo(EventObjects, MaxObjects), TRUE)

\* The papers table gives the same answer at every attempt.
EventWrite ==
    IngestWriteWith(BOOLEAN, {script \in [1..maxRetries -> StoreAnswers] :
                                 \A a \in 1..maxRetries : script[a] = script[1]})

(***************************************************************************)
(* The embedding client called directly (SpecEmbed)                        *)
(***************************************************************************)
\* The texts handed over exceed maxTextLength by up to MaxExcess one-byte
\* characters and end with up to MaxWide two-byte characters.
MaxExcess == 2

MaxWide == 2

\* k one-byte characters followed by m two-byte characters.
TextOf(k, m) ==
    [i \in 1..k |-> "a"] \o [i \in 1..(2 * m) |-> IF i % 2 = 1 THEN "C3" ELSE "A9"]

EmbedTexts ==
    {TextOf(k, m) : k \in {0, 1} \cup ((maxTextLength - 3)..(maxTextLength + MaxExcess)),
                    m \in 0..MaxWide}

NoEmbedResult ==
    [errNil |-> TRUE, errText |-> <<>>, resp |-> NoResponse, requested |-> FALSE,
     sent |-> <<>>]

EmbedInit ==
    /\ ePc = "input"
    /\ eText \in EmbedTexts
    /\ eHttp \in HTTPOutcomes
    /\ eOut = NoEmbedResult

\* A caller runs GenerateEmbedding on the text.
EmbedCall ==
    /\ ePc = "input"
    /\ eOut' = GenerateEmbedding(eText, eHttp)
    /\ ePc' = "done"
    /\ UNCHANGED <<eText, eHttp>>

EmbedIdle ==
    /\ ePc = "off"
    /\ eText = <<>>
    /\ eHttp = [kind |-> "transport", resp |-> NoResponse]
    /\ eOut = NoEmbedResult

(***************************************************************************)
(* The ingestion writer called directly (SpecUpsert)                       *)
(***************************************************************************)
\* The i-th paper of a list: the keys are distinct, as after deduplication.
UpsertPaper(i) == [PaperID |-> ToString(i), Title |-> "T", TraceID |-> "u1"]

Answer(e, keep) == [err |-> e, keep |-> keep]

\* The store's answers to the calls for one chunk of a list of several
\* chunks: written at once; an error at once; written at the second or third
\* call; items left after the third call; an error at the second call.
ChunkScripts ==
    {<<Answer(FALSE, "none"), Answer(FALSE, "none"), Answer(FALSE, "none")>>,
     <<Answer(TRUE, "none"), Answer(FALSE, "none"), Answer(FALSE, "none")>>,
     <<Answer(FALSE, "head"), Answer(FALSE, "none"), Answer(FALSE, "none")>>,
     <<Answer(FALSE, "tail"), Answer(FALSE, "all"), Answer(FALSE, "none")>>,
     <<Answer(FALSE, "all"), Answer(FALSE, "tail"), Answer(FALSE, "head")>>,
     <<Answer(FALSE, "tail"), Answer(TRUE, "none"), Answer(FALSE, "none")>>}

\* A list of one chunk gets every script of maxRetries answers.
UpsertScripts(n) ==
    IF n <= MaxBatchSize THEN [1..maxRetries -> StoreAnswers] ELSE ChunkScripts

NoUpsertResult == BatchUpsertWithStats(<<>>, <<>>)

UpsertInit ==
    /\ uPc = "input"
    /\ \E n \in BulkSizes :
         /\ uIn = [i \in 1..n |-> UpsertPaper(i)]
         /\ uStore \in [1..NumChunks(n) -> UpsertScripts(n)]
    /\ uOut = NoUpsertResult
    /\ uPlain = NoPlainResult

\* A caller runs BatchUpsertWithStats on the list.
UpsertStatsCall ==
    /\ uPc = "input"
    /\ uOut' = BatchUpsertWithStats(uIn, uStore)
    /\ uPc' = "stats"
    /\ UNCHANGED <<uIn, uStore, uPlain>>

\* A caller runs BatchUpsert on the list.
UpsertPlainCall ==
    /\ uPc = "input"
    /\ uPlain' = BatchUpsert(uIn, uStore)
    /\ uPc' = "plain"
    /\ UNCHANGED <<uIn, uStore, uOut>>

UpsertIdle ==
    /\ uPc = "off"
    /\ uIn = <<>>
    /\ uStore = <<>>
    /\ uOut = NoUpsertResult
    /\ uPlain = NoPlainResult

(***************************************************************************)
(* The retriever run page by page (SpecRetriever)                          *)
(***************************************************************************)
RetrieverTraceIDs == {"", "t1"}

\* What the index may return for trace id t: the papers of Pool(t), a record
\* without trace id, one with neither title nor abstract, one with an
\* abstract only, one with a blank title and an abstract.
RetrieverPool(t) ==
    Pool(t) \cup
    {[PaperID |-> "p4", TraceID |-> "", Title |-> <<"T">>, Abstract |-> <<"A">>],
     [PaperID |-> "p5", TraceID |-> t, Title |-> <<>>, Abstract |-> <<>>],
     [PaperID |-> "p6", TraceID |-> t, Title |-> <<>>, Abstract |-> <<"\f", "A">>],
     [PaperID |-> "p7", TraceID |-> t, Title |-> <<"U+00A0">>, Abstract |-> <<"A">>]}

\* The last store holds one record on each of maxPages pages: the response
\* to the query of page maxPages carries no cursor.
RetrieverStores(t) ==
    [items : SeqsUpTo(RetrieverPool(t), MaxItems), pageSize : {1, 2},
     failAt : {0}, failKind : {"query"}, endless : BOOLEAN]
    \cup [items : SeqsUpTo(RetrieverPool(t), MaxItems), pageSize : {1},
          failAt : {1, 2}, failKind : {"query", "unmarshal"}, endless : BOOLEAN]
    \cup [items : {[i \in 1..maxPages |-> RerunPaper(i, t)]}, pageSize : {1},
          failAt : {0}, failKind : {"query"}, endless : {FALSE}]

NoRetrieverResult ==
    [errNil |-> TRUE, errText |-> <<>>, texts |-> <<>>, queries |-> <<>>, warned |-> FALSE]

RetrInit ==
    /\ rPc = "input"
    /\ rTrace \in RetrieverTraceIDs
    /\ rStore \in RetrieverStores(rTrace)
    /\ rSt = QueryStart
    /\ rOut = NoRetrieverResult

\* The call: the empty trace id returns at once, any other enters the loop.
RetrEnter ==
    /\ rPc = "input"
    /\ IF rTrace = ""
       THEN rOut' = EmptyTraceIDResult /\ rPc' = "done"
       ELSE rOut' = rOut /\ rPc' = "loop"
    /\ UNCHANGED <<rTrace, rStore, rSt>>

\* One iteration of the pagination loop.
RetrPage ==
    /\ rPc = "loop"
    /\ ~rSt.left
    /\ rSt.pageCount < maxPages
    /\ rSt' = QueryStep(rStore, rSt)
    /\ UNCHANGED <<rPc, rTrace, rStore, rOut>>

\* The loop is left: break, error return, or pageCount = maxPages.
RetrReturn ==
    /\ rPc = "loop"
    /\ rSt.left \/ ~(rSt.pageCount < maxPages)
    /\ rOut' = AfterLoop(rSt)
    /\ rPc' = "done"
    /\ UNCHANGED <<rTrace, rStore, rSt>>

RetrIdle ==
    /\ rPc = "off"
    /\ rTrace = ""
    /\ rStore = [items |-> <<>>, pageSize |-> 1, failAt |-> 0, failKind |-> "query",
                 endless |-> FALSE]
    /\ rSt = QueryStart
    /\ rOut = NoRetrieverResult

(***************************************************************************)
(* The vector writer called directly (SpecStore)                           *)
(***************************************************************************)
\* Number of records handed to the writer.
MaxRecords == 3

\* Vector records as a caller may build them: two valid ones and one for each
\* rule of validateVectorRecord.
ValidRecord(id) ==
    [PaperID |-> id, VectorType |-> "title_abstract", Embedding |-> <<"0.1", "0.2">>,
     ModelName |-> "m1", ModelVersion |-> "m1", Dimension |-> 2, TextLength |-> 1,
     Content |-> <<"T">>, TraceID |-> "t1"]

RecordPool ==
    {ValidRecord("p1"), ValidRecord("p2"),
     [ValidRecord("") EXCEPT !.Content = <<"a">>],
     [ValidRecord("q2") EXCEPT !.VectorType = ""],
     [ValidRecord("q3") EXCEPT !.Embedding = <<>>, !.Dimension = 0],
     [ValidRecord("q4") EXCEPT !.Dimension = 3],
     [ValidRecord("q5") EXCEPT !.ModelVersion = ""],
     [ValidRecord("q6") EXCEPT !.TraceID = ""],
     [ValidRecord("q7") EXCEPT !.Embedding = <<"0.1", "NaN">>]}

NoStoreResult == EmptyBatchResult

NoBuild == [n |-> 0, L |-> 0, bad |-> {}]

StoreInit ==
    /\ wPc = "input"
    /\ wIn \in SeqsUpTo(RecordPool, MaxRecords)
    /\ wAns \in [1..NumChunks(Len(wIn)) -> WriteAnswers(Min(Len(wIn), batchSize))]
    /\ wOut = NoStoreResult
    /\ wBuilt = NoBuild

\* One call of BatchStoreVectors.
StoreCall ==
    /\ wPc = "input"
    /\ wOut' = BatchStoreVectors(wIn, wAns)
    /\ wPc' = "done"
    /\ UNCHANGED <<wIn, wAns, wBuilt>>

StoreIdle ==
    /\ wPc = "off"
    /\ wIn = <<>>
    /\ wAns = <<>>
    /\ wOut = NoStoreResult
    /\ wBuilt = NoBuild

(***************************************************************************)
(* The vector writer on lists of more than one chunk (SpecBulk)            *)
(***************************************************************************)
\* Length bound of the embeddings the records are built from.
MaxDimension == 3

EmbeddingOfLength(L) == [j \in 1..L |-> "0.1"]

\* The i-th record of a list: built by CreateVectorRecord from an embedding of
\* length L; at the positions in bad the declared dimension is then altered.
BulkRecord(i, L, bad) ==
    LET r == CreateVectorRecord(ToString(i), <<"T">>, "t1", EmbeddingOfLength(L), "m1")
    IN IF i \in bad THEN [r EXCEPT !.Dimension = @ + 1] ELSE r

\* Answers of the vectors table to one chunk: an error with an output value,
\* an error with a nil output (what the client interface allows and the
\* repository's mock client returns), every item written, the first item
\* unprocessed.
BulkAnswers ==
    {[err |-> TRUE, outNil |-> FALSE, unprocessed |-> {}],
     [err |-> TRUE, outNil |-> TRUE, unprocessed |-> {}],
     [err |-> FALSE, outNil |-> FALSE, unprocessed |-> {}],
     [err |-> FALSE, outNil |-> FALSE, unprocessed |-> {1}]}

BulkInit ==
    /\ wPc = "build"
    /\ wIn = <<>>
    /\ wAns = <<>>
    /\ wOut = NoStoreResult
    /\ wBuilt = NoBuild

\* The caller builds n records with CreateVectorRecord.
BulkBuild ==
    /\ wPc = "build"
    /\ \E n \in BulkSizes, L \in 0..MaxDimension :
         \E bad \in SUBSET ({2, batchSize + 1} \cap (1..n)) :
              /\ wIn' = [i \in 1..n |-> BulkRecord(i, L, bad)]
              /\ wAns' \in [1..NumChunks(n) -> BulkAnswers]
              /\ wBuilt' = [n |-> n, L |-> L, bad |-> bad]
    /\ wPc' = "input"
    /\ UNCHANGED wOut

(***************************************************************************)
(* Two invocations on one component instance (SpecShared)                  *)
(***************************************************************************)
\* The component structs hold a client, table and index names and a logger
\* (deduplicator.go 9-11, writer.go 21-25, vector_storage.go 49-53,
\* data_retriever.go 37-42); Logger.WithContext and WithTraceID return a new
\* Logger.  What an invocation works on is created in its own frame.
Invocations == {1, 2}

Components == {"deduplicator", "writer", "vectorStorage", "retriever"}

\* Length bound of the deduplicator inputs and of the index contents here.
MaxSharedLen == 2

SharedPapers == [PaperID : DedupKeys, Title : {"A"}]

\* Lists of no, one and two chunks.
SharedSizes == {0, 1, batchSize + 1}

\* The argument of invocation x and the answers of the store behind it.  The
\* two retriever invocations ask for different trace ids.
SharedInputs(comp, x) ==
    CASE comp = "deduplicator" ->
           [arg : SeqsUpTo(SharedPapers, MaxSharedLen), store : {<<>>}]
      [] comp = "writer" ->
           UNION {[arg : {[i \in 1..n |-> UpsertPaper(i)]},
                   store : [1..NumChunks(n) -> ChunkScripts]] : n \in SharedSizes}
      [] comp = "vectorStorage" ->
           UNION {[arg : {[i \in 1..n |-> BulkRecord(i, 1, {})]},
                   store : [1..NumChunks(n) -> BulkAnswers]] : n \in SharedSizes}
      [] comp = "retriever" ->
           [arg : {"t" \o ToString(x)},
            store : [items : SeqsUpTo({p \in Pool("t" \o ToString(x)) :
                                          p.PaperID \in {"", "p1"}}, MaxSharedLen),
                     pageSize : {1}, failAt : {0, 2}, failKind : {"query"},
                     endless : {FALSE}]]

\* The locals an invocation creates on entry: the seen set, slice and
\* counters of DeduplicateWithStats; the statistics of BatchUpsertWithStats;
\* the BatchResult of BatchStoreVectors; the page counter, cursor and slice
\* of GetCombinedTextsByTraceID.
NewWorkingSet(comp, arg) ==
    CASE comp = "deduplicator" -> [seen |-> {}, out |-> <<>>, dup |-> 0, invalid |-> 0]
      [] comp = "writer" ->
           [stats |-> [TotalItems |-> Len(arg),
                       BatchCount |-> (Len(arg) + MaxBatchSize - 1) \div MaxBatchSize,
                       SuccessItems |-> 0, FailedItems |-> 0,
                       SuccessBatches |-> 0, FailedBatches |-> 0],
            calls |-> <<>>, accepted |-> <<>>, chunks |-> <<>>, errNil |-> TRUE]
      [] comp = "vectorStorage" -> EmptyBatchResult
      [] comp = "retriever" -> QueryStart
      [] OTHER -> <<>>

\* An invocation that has not entered the method.
IdleInvocation(comp) ==
    [pc |-> "idle", arg |-> <<>>, store |-> <<>>, i |-> 0, k |-> 1,
     work |-> NewWorkingSet(comp, <<>>), issued |-> <<>>, out |-> <<>>]

\* The locals invocation x works on.
WorkingSet(inv, x) == inv[x].work

\* The loop condition of invocation s on its locals.
MoreToDo(comp, s, work) ==
    CASE comp = "deduplicator" -> s.i < Len(s.arg)
      [] comp = "writer" -> s.i < Len(s.arg)
      [] comp = "vectorStorage" -> s.i < Len(s.arg)
      [] comp = "retriever" -> s.arg # "" /\ ~work.left /\ work.pageCount < maxPages

\* One iteration of the loop of invocation s on the locals work: one record
\* of the deduplicator, one chunk of a writer, one page of the retriever.
StepWork(comp, s, work) ==
    CASE comp = "deduplicator" ->
           DedupLoop(SubSeq(s.arg, 1, s.i + 1), s.i + 1, work)
      [] comp = "writer" ->
           UpsertLoop(SubSeq(s.arg, 1, Min(s.i + MaxBatchSize, Len(s.arg))),
                      s.i, s.k, s.store, work)
      [] comp = "vectorStorage" ->
           BatchStoreLoop(SubSeq(s.arg, 1, Min(s.i + batchSize, Len(s.arg))),
                          s.i, s.k, s.store, work)
      [] comp = "retriever" -> QueryStep(s.store, work)

\* The store calls of one iteration, in order: the BatchWriteItemWithContext
\* calls of the retry loop for a chunk (part_008 127-158, call at 142), the
\* one of processBatch (vector_storage.go 234), the Query of a page; the
\* deduplicator calls nothing.
IterationCalls(comp, s, work) ==
    LET after == StepWork(comp, s, work)
    IN CASE comp = "deduplicator" -> <<>>
         [] comp = "writer" -> SubSeq(after.calls, Len(work.calls) + 1, Len(after.calls))
         [] comp = "vectorStorage" ->
              SubSeq(after.requests, Len(work.requests) + 1, Len(after.requests))
         [] comp = "retriever" ->
              SubSeq(after.queries, Len(work.queries) + 1, Len(after.queries))

\* How far the loop variable moves in one iteration.
Stride(comp) ==
    CASE comp = "deduplicator" -> 1
      [] comp = "writer" -> MaxBatchSize
      [] comp = "vectorStorage" -> batchSize
      [] comp = "retriever" -> 0

\* What the invocation returns from its locals.
ResultOf(comp, s, work) ==
    CASE comp = "deduplicator" ->
           IF Len(s.arg) = 0
           THEN [papers |-> s.arg,
                 stats |-> [ZeroStats EXCEPT !.OriginalCount = Len(s.arg)]]
           ELSE [papers |-> work.out,
                 stats |-> [OriginalCount |-> Len(s.arg), UniqueCount |-> Len(work.out),
                            DuplicateCount |-> work.dup, InvalidCount |-> work.invalid]]
      [] comp = "writer" -> work
      [] comp = "vectorStorage" -> work
      [] comp = "retriever" -> IF s.arg = "" THEN EmptyTraceIDResult ELSE AfterLoop(work)

\* The same call on an instance that runs nothing else.
InIsolation(comp, arg, store) ==
    CASE comp = "deduplicator" -> DeduplicateWithStats(arg)
      [] comp = "writer" -> BatchUpsertWithStats(arg, store)
      [] comp = "vectorStorage" -> BatchStoreVectors(arg, store)
      [] comp = "retriever" -> GetCombinedTextsByTraceID(arg, store)

SharedInit ==
    /\ sComp \in Components
    /\ sInv = [x \in Invocations |-> IdleInvocation(sComp)]

\* An invocation enters the method.
SharedStart ==
    \E x \in Invocations :
       /\ sInv[x].pc = "idle"
       /\ \E in \in SharedInputs(sComp, x) :
            sInv' = [sInv EXCEPT ![x] =
                        [pc |-> "run", arg |-> in.arg, store |-> in.store, i |-> 0,
                         k |-> 1, work |-> NewWorkingSet(sComp, in.arg),
                         issued |-> <<>>, out |-> <<>>]]
       /\ UNCHANGED sComp

\* The invocations that have entered the method and not left it: at the
\* head of the loop ("run") or waiting in a store call ("wait").
Running(inv) == {y \in Invocations : inv[y].pc \in {"run", "wait"}}

\* Invocation x has gone through one iteration.  A panic in processBatch
\* ends the process, and with it every invocation that is running, wherever
\* it is.
IterationDone(x) ==
    LET work == StepWork(sComp, sInv[x], WorkingSet(sInv, x))
        step == [sInv EXCEPT ![x].work = work,
                             ![x].pc = "run",
                             ![x].issued = <<>>,
                             ![x].i = @ + Stride(sComp),
                             ![x].k = @ + 1]
    IN IF sComp = "vectorStorage" /\ work.panicked
       THEN [y \in Invocations |->
               IF y \in Running(sInv) THEN [step[y] EXCEPT !.pc = "crashed"]
               ELSE step[y]]
       ELSE step

\* One iteration that calls no store: a record of the deduplicator.
SharedStep ==
    \E x \in Invocations :
       /\ sInv[x].pc = "run"
       /\ MoreToDo(sComp, sInv[x], WorkingSet(sInv, x))
       /\ IterationCalls(sComp, sInv[x], WorkingSet(sInv, x)) = <<>>
       /\ sInv' = IterationDone(x)
       /\ UNCHANGED sComp

\* An iteration reaches its first store call: the invocation waits in it,
\* and the other invocation may run.
SharedCall ==
    \E x \in Invocations :
       /\ sInv[x].pc = "run"
       /\ MoreToDo(sComp, sInv[x], WorkingSet(sInv, x))
       /\ LET due == IterationCalls(sComp, sInv[x], WorkingSet(sInv, x))
          IN /\ due # <<>>
             /\ sInv' = [sInv EXCEPT ![x].pc = "wait", ![x].issued = <<due[1]>>]
       /\ UNCHANGED sComp

\* The store call an invocation waits in returns: the retry loop of the
\* ingestion writer issues its next call, or the iteration ends.
SharedAnswer ==
    \E x \in Invocations :
       /\ sInv[x].pc = "wait"
       /\ LET due == IterationCalls(sComp, sInv[x], WorkingSet(sInv, x))
              n == Len(sInv[x].issued)
          IN IF n < Len(due)
             THEN sInv' = [sInv EXCEPT ![x].issued = Append(@, due[n + 1])]
             ELSE sInv' = IterationDone(x)
       /\ UNCHANGED sComp

\* The invocation returns.
SharedReturn ==
    \E x \in Invocations :
       /\ sInv[x].pc = "run"
       /\ ~MoreToDo(sComp, sInv[x], WorkingSet(sInv, x))
       /\ sInv' = [sInv EXCEPT ![x].pc = "done",
                               ![x].out = ResultOf(sComp, sInv[x], WorkingSet(sInv, x))]
       /\ UNCHANGED sComp

SharedIdle ==
    /\ sComp = "off"
    /\ sInv = [x \in Invocations |-> IdleInvocation("off")]

(***************************************************************************)
(* The vectorization stage run again on the same source (SpecRerun)        *)
(***************************************************************************)
\* The papers table is keyed by paper_id (setup-infrastructure.sh 67-73): the
\* records of a trace have distinct keys.
DistinctKeys(items) ==
    \A i, j \in 1..Len(items) : items[i].PaperID = items[j].PaperID => i = j

\* What the papers table holds for the trace, the same in every run: a few
\* records of Pool, or one record per page up to and beyond the page ceiling.
RerunSources(t) ==
    [items : {items \in SeqsUpTo(Pool(t), MaxItems) : DistinctKeys(items)},
     pageSize : {1, 2}, failAt : {0}, failKind : {"query"}, endless : {FALSE}]
    \cup [items : {[i \in 1..n |-> RerunPaper(i, t)] : n \in {maxPages, maxPages + 1}},
          pageSize : {1}, failAt : {0}, failKind : {"query"}, endless : {FALSE}]

\* A long trace is followed on the path without failures only.
LongTrace == Len(texts) > MaxItems

RerunOutcomes ==
    IF LongTrace THEN {[kind |-> "ok",
                        resp |-> [Embedding |-> <<"0.1", "0.2">>, ModelVersion |-> "m1",
                                  Dimension |-> 2]]}
    ELSE {[kind |-> "transport", resp |-> NoResponse],
          [kind |-> "ok",
           resp |-> [Embedding |-> <<"0.1", "0.2">>, ModelVersion |-> "m1",
                     Dimension |-> 2]]}

RerunAnswers ==
    IF LongTrace THEN {[err |-> FALSE, outNil |-> FALSE, unprocessed |-> {}]}
    ELSE WriteAnswers(Min(Len(vectorRecords), batchSize))

RerunInit ==
    /\ VecInit
    /\ rPc = "off"
    /\ rTrace = "t1"
    /\ rStore \in RerunSources(rTrace)
    /\ rSt = QueryStart
    /\ rOut = NoRetrieverResult

\* processVectorization starts for the trace; the query of the first page
\* may fail in this run.
RerunStart ==
    /\ pc = "idle"
    /\ runs < MaxRuns
    /\ \E failAt \in {0, 1} :
         VecStartWith(rTrace, [rStore EXCEPT !.failAt = failAt], env)
    /\ UNCHANGED table

RerunEmbed == VecEmbedWith(RerunOutcomes)

RerunStore == VecStoreWith(IF LongTrace THEN {FALSE} ELSE BOOLEAN, RerunAnswers)

\* The next invocation for the same trace; the vectors table stays.
RerunNextInvocation ==
    /\ pc = "done"
    /\ runs < MaxRuns
    /\ pc' = "idle"
    /\ traceID' = ""
    /\ texts' = <<>>
    /\ idx' = 1
    /\ vectorRecords' = <<>>
    /\ result' = NewResult("")
    /\ ret' = NotReturned
    /\ calls' = <<>>
    /\ env' = [NoEnv EXCEPT !.prior = Append(env.prior, result.Status)]
    /\ UNCHANGED <<table, runs>>

(***************************************************************************)
(* Specifications                                                          *)
(***************************************************************************)
IngestIdle ==
    /\ iPc = "off"
    /\ iMid = NoMid
    /\ iResult = NewProcessResult("")
    /\ iRet = NotReturned
    /\ iEnv = NoIngestEnv
    /\ iEvent = <<>>

DedupIdle ==
    /\ dPc = "off"
    /\ dIn = <<>>
    /\ dOut = <<>>
    /\ dStats = ZeroStats
    /\ dOutPlain = <<>>

VecIdle ==
    /\ pc = "off"
    /\ traceID = ""
    /\ texts = <<>>
    /\ idx = 1
    /\ vectorRecords = <<>>
    /\ result = NewResult("")
    /\ ret = NotReturned
    /\ calls = <<>>
    /\ table = EmptyBag
    /\ env = NoEnv
    /\ runs = 0

\* The vectorization stage.
Init == VecInit /\ DedupIdle /\ IngestIdle /\ RetrIdle /\ StoreIdle /\ UpsertIdle /\ EmbedIdle /\ SharedIdle

Next ==
    \/ VecStart /\ UNCHANGED <<dedupVars, ingestVars, retrVars, storeVars, upsertVars, embedVars, sharedVars>>
    \/ VecEmbed /\ UNCHANGED <<dedupVars, ingestVars, retrVars, storeVars, upsertVars, embedVars, sharedVars>>
    \/ VecStore /\ UNCHANGED <<dedupVars, ingestVars, retrVars, storeVars, upsertVars, embedVars, sharedVars>>
    \/ RetrieverCall /\ UNCHANGED <<dedupVars, ingestVars, retrVars, storeVars, upsertVars, embedVars, sharedVars>>
    \/ VecNextInvocation /\ UNCHANGED <<dedupVars, ingestVars, retrVars, storeVars, upsertVars, embedVars, sharedVars>>

Spec == Init /\ [][Next]_vars

\* The deduplicator.
InitDedup == DedupInit /\ VecIdle /\ IngestIdle /\ RetrIdle /\ StoreIdle /\ UpsertIdle /\ EmbedIdle /\ SharedIdle

NextDedup ==
    \/ DedupCall /\ UNCHANGED <<vecVars, ingestVars, retrVars, storeVars, upsertVars, embedVars, sharedVars>>
    \/ DedupReapply /\ UNCHANGED <<vecVars, ingestVars, retrVars, storeVars, upsertVars, embedVars, sharedVars>>

SpecDedup == InitDedup /\ [][NextDedup]_vars

\* One invocation of the vectorization stage whose context may be cancelled.
NextCancel ==
    \/ VecStartLive /\ UNCHANGED <<dedupVars, ingestVars, retrVars, storeVars, upsertVars, embedVars, sharedVars>>
    \/ VecStartCancelled /\ UNCHANGED <<dedupVars, ingestVars, retrVars, storeVars, upsertVars, embedVars, sharedVars>>
    \/ VecCancel /\ UNCHANGED <<dedupVars, ingestVars, retrVars, storeVars, upsertVars, embedVars, sharedVars>>
    \/ VecEmbedLive /\ UNCHANGED <<dedupVars, ingestVars, retrVars, storeVars, upsertVars, embedVars, sharedVars>>
    \/ VecEmbedCancelled /\ UNCHANGED <<dedupVars, ingestVars, retrVars, storeVars, upsertVars, embedVars, sharedVars>>
    \/ VecStoreLive /\ UNCHANGED <<dedupVars, ingestVars, retrVars, storeVars, upsertVars, embedVars, sharedVars>>
    \/ VecStoreCancelled /\ UNCHANGED <<dedupVars, ingestVars, retrVars, storeVars, upsertVars, embedVars, sharedVars>>

\* The steps of an invocation that has started: the handler, once in its
\* embedding loop, runs on to its return whether the context is cancelled or
\* not.
CancelProgress ==
    /\ \/ VecEmbedLive
       \/ VecEmbedCancelled
       \/ VecStoreLive
       \/ VecStoreCancelled
    /\ UNCHANGED <<dedupVars, ingestVars, retrVars, storeVars, upsertVars, embedVars, sharedVars>>

SpecCancel == Init /\ [][NextCancel]_vars /\ WF_vars(CancelProgress)


\* The ingestion stage.
InitIngest == IngestInit /\ VecIdle /\ DedupIdle /\ RetrIdle /\ StoreIdle /\ UpsertIdle /\ EmbedIdle /\ SharedIdle

NextIngest ==
    \/ IngestReceive /\ UNCHANGED <<vecVars, dedupVars, retrVars, storeVars, upsertVars, embedVars, sharedVars>>
    \/ IngestWrite /\ UNCHANGED <<vecVars, dedupVars, retrVars, storeVars, upsertVars, embedVars, sharedVars>>

SpecIngest == InitIngest /\ [][NextIngest]_vars


\* The retriever, page by page.  The loop runs in one goroutine and every
\* query returns, so a step that can be taken is taken.
InitRetriever == RetrInit /\ VecIdle /\ DedupIdle /\ IngestIdle /\ StoreIdle /\ UpsertIdle /\ EmbedIdle /\ SharedIdle

NextRetriever ==
    \/ RetrEnter /\ UNCHANGED <<vecVars, dedupVars, ingestVars, storeVars, upsertVars, embedVars, sharedVars>>
    \/ RetrPage /\ UNCHANGED <<vecVars, dedupVars, ingestVars, storeVars, upsertVars, embedVars, sharedVars>>
    \/ RetrReturn /\ UNCHANGED <<vecVars, dedupVars, ingestVars, storeVars, upsertVars, embedVars, sharedVars>>

SpecRetriever == InitRetriever /\ [][NextRetriever]_vars /\ WF_vars(NextRetriever)


\* The vector writer.
InitStore == StoreInit /\ VecIdle /\ DedupIdle /\ IngestIdle /\ RetrIdle /\ UpsertIdle /\ EmbedIdle /\ SharedIdle

NextStore == StoreCall /\ UNCHANGED <<vecVars, dedupVars, ingestVars, retrVars, upsertVars, embedVars, sharedVars>>

SpecStore == InitStore /\ [][NextStore]_vars


\* The vector writer on lists built by the caller, up to three chunks.
InitBulk == BulkInit /\ VecIdle /\ DedupIdle /\ IngestIdle /\ RetrIdle /\ UpsertIdle /\ EmbedIdle /\ SharedIdle

NextBulk ==
    \/ BulkBuild /\ UNCHANGED <<vecVars, dedupVars, ingestVars, retrVars, upsertVars, embedVars, sharedVars>>
    \/ StoreCall /\ UNCHANGED <<vecVars, dedupVars, ingestVars, retrVars, upsertVars, embedVars, sharedVars>>

SpecBulk == InitBulk /\ [][NextBulk]_vars

\* The ingestion writer on lists of up to three chunks.
InitUpsert == UpsertInit /\ VecIdle /\ DedupIdle /\ IngestIdle /\ RetrIdle /\ StoreIdle /\ EmbedIdle /\ SharedIdle

NextUpsert ==
    \/ UpsertStatsCall /\ UNCHANGED <<vecVars, dedupVars, ingestVars, retrVars, storeVars, embedVars, sharedVars>>
    \/ UpsertPlainCall /\ UNCHANGED <<vecVars, dedupVars, ingestVars, retrVars, storeVars, embedVars, sharedVars>>

SpecUpsert == InitUpsert /\ [][NextUpsert]_vars

\* The embedding client on texts around the length limit.
InitEmbed ==
    EmbedInit /\ VecIdle /\ DedupIdle /\ IngestIdle /\ RetrIdle /\ StoreIdle /\ UpsertIdle /\ SharedIdle

NextEmbed ==
    EmbedCall /\ UNCHANGED <<vecVars, dedupVars, ingestVars, retrVars, storeVars, upsertVars, sharedVars>>

SpecEmbed == InitEmbed /\ [][NextEmbed]_vars

\* Two invocations on one instance of a component, interleaved at the
\* iterations of their loops.
InitShared ==
    /\ SharedInit
    /\ DedupIdle /\ VecIdle /\ IngestIdle /\ RetrIdle /\ StoreIdle /\ UpsertIdle /\ EmbedIdle

NextShared ==
    \/ SharedStart /\ UNCHANGED <<dedupVars, vecVars, ingestVars, retrVars, storeVars, upsertVars, embedVars>>
    \/ SharedCall /\ UNCHANGED <<dedupVars, vecVars, ingestVars, retrVars, storeVars, upsertVars, embedVars>>
    \/ SharedAnswer /\ UNCHANGED <<dedupVars, vecVars, ingestVars, retrVars, storeVars, upsertVars, embedVars>>
    \/ SharedStep /\ UNCHANGED <<dedupVars, vecVars, ingestVars, retrVars, storeVars, upsertVars, embedVars>>
    \/ SharedReturn /\ UNCHANGED <<dedupVars, vecVars, ingestVars, retrVars, storeVars, upsertVars, embedVars>>

SpecShared == InitShared /\ [][NextShared]_vars

\* The vectorization stage invoked repeatedly for one trace whose source
\* records do not change.
InitRerun ==
    /\ RerunInit
    /\ DedupIdle /\ IngestIdle /\ StoreIdle /\ UpsertIdle /\ EmbedIdle /\ SharedIdle

NextRerun ==
    \/ RerunStart /\ UNCHANGED <<dedupVars, ingestVars, retrVars, storeVars, upsertVars, embedVars, sharedVars>>
    \/ RerunEmbed /\ UNCHANGED <<dedupVars, ingestVars, retrVars, storeVars, upsertVars, embedVars, sharedVars>>
    \/ RerunStore /\ UNCHANGED <<dedupVars, ingestVars, retrVars, storeVars, upsertVars, embedVars, sharedVars>>
    \/ RerunNextInvocation /\ UNCHANGED <<dedupVars, ingestVars, retrVars, storeVars, upsertVars, embedVars, sharedVars>>

SpecRerun == InitRerun /\ [][NextRerun]_vars

\* The ingestion stage with the event of the invocation kept.
InitEvent ==
    /\ IngestInit
    /\ VecIdle /\ DedupIdle /\ RetrIdle /\ StoreIdle /\ UpsertIdle /\ EmbedIdle /\ SharedIdle

NextEvent ==
    \/ EventReceive /\ UNCHANGED <<vecVars, dedupVars, retrVars, storeVars, upsertVars, embedVars, sharedVars>>
    \/ EventWrite /\ UNCHANGED <<vecVars, dedupVars, retrVars, storeVars, upsertVars, embedVars, sharedVars>>

SpecEvent == InitEvent /\ [][NextEvent]_vars

\* Either writer called directly: the vector writer on lists built with
\* CreateVectorRecord, or the ingestion writer.
InitWriters ==
    /\ \/ BulkInit /\ UpsertIdle
       \/ StoreIdle /\ UpsertInit
    /\ VecIdle /\ DedupIdle /\ IngestIdle /\ RetrIdle /\ EmbedIdle /\ SharedIdle

NextWriters ==
    \/ BulkBuild /\ UNCHANGED <<vecVars, dedupVars, ingestVars, retrVars, upsertVars, embedVars, sharedVars>>
    \/ StoreCall /\ UNCHANGED <<vecVars, dedupVars, ingestVars, retrVars, upsertVars, embedVars, sharedVars>>
    \/ UpsertStatsCall /\ UNCHANGED <<vecVars, dedupVars, ingestVars, retrVars, storeVars, embedVars, sharedVars>>
    \/ UpsertPlainCall /\ UNCHANGED <<vecVars, dedupVars, ingestVars, retrVars, storeVars, embedVars, sharedVars>>

SpecWriters == InitWriters /\ [][NextWriters]_vars


(***************************************************************************)
(* Properties of the deduplicator (SpecDedup)                              *)
(***************************************************************************)
\* The smallest position of key k in s.
FirstPos(s, k) ==
    CHOOSE i \in 1..Len(s) :
        s[i].PaperID = k /\ \A j \in 1..(i - 1) : s[j].PaperID # k

\* a is b with some positions removed, order kept.
RECURSIVE IsSubsequence(_, _)
IsSubsequence(a, b) ==
    IF Len(a) = 0 THEN TRUE
    ELSE IF Len(b) = 0 THEN FALSE
    ELSE IF Head(a) = Head(b) /\ IsSubsequence(Tail(a), Tail(b)) THEN TRUE
    ELSE IsSubsequence(a, Tail(b))

FirstSeenWins(out, in) ==
    /\ \A i \in 1..Len(in) :
         in[i].PaperID # "" =>
            /\ Cardinality({p \in 1..Len(out) : out[p].PaperID = in[i].PaperID}) = 1
            /\ \A p \in 1..Len(out) :
                 out[p].PaperID = in[i].PaperID => out[p] = in[FirstPos(in, in[i].PaperID)]
    /\ IsSubsequence(out, in)

\* C1: DeduplicateWithStats and Deduplicate keep, for every non-empty key of
\* the input, the record at the smallest position of that key, and return an
\* order-preserving subsequence of the input.
C1_FirstSeenWins ==
    dPc = "done" => FirstSeenWins(dOut, dIn) /\ FirstSeenWins(dOutPlain, dIn)

\* A key occurs twice with different records around another kept record.
C1_Witness ==
    /\ dPc = "done"
    /\ Len(dOut) >= 2
    /\ \E i, j \in 1..Len(dIn) :
         i < j /\ dIn[i].PaperID # "" /\ dIn[i].PaperID = dIn[j].PaperID
         /\ dIn[i] # dIn[j]

\* C2: unique + duplicate + invalid = original, where original is the input
\* length, unique the output length and invalid the number of empty-key
\* records; the empty input gives all counts zero.
C2_StatsPartition ==
    dPc = "done" =>
        /\ dStats.UniqueCount + dStats.DuplicateCount + dStats.InvalidCount
             = dStats.OriginalCount
        /\ dStats.OriginalCount = Len(dIn)
        /\ dStats.UniqueCount = Len(dOut)
        /\ dStats.InvalidCount = Cardinality({i \in 1..Len(dIn) : dIn[i].PaperID = ""})

\* An input with a kept record, a duplicate and an empty-key record.
C2_Witness ==
    /\ dPc = "done"
    /\ dStats.UniqueCount >= 1
    /\ dStats.DuplicateCount >= 1
    /\ dStats.InvalidCount >= 1

(***************************************************************************)
(* Properties of the vectorization stage (Spec)                            *)
(***************************************************************************)
Returned == pc = "done"

NoFailures == env.embFailed = 0 /\ env.storeFailed = 0

\* C3 as stated: processVectorization returns completed exactly when there
\* were zero embedding failures and zero storage failures, and then the
\* returned error is nil.
C3_CompletedIffNoFailures ==
    Returned =>
        /\ (result.Status = StatusCompleted) <=> NoFailures
        /\ result.Status = StatusCompleted => ret.errNil

\* C3 amended: for an invocation whose trace id is accepted and whose
\* retrieval succeeds, the status is completed exactly when no embedding call
\* failed and every record handed to the storage writer was stored, and then
\* the returned error is nil.
C3_CompletedIffNoFailuresAfterRetrieval ==
    Returned /\ env.retrieved =>
        /\ (result.Status = StatusCompleted) <=> NoFailures
        /\ result.Status = StatusCompleted => ret.errNil

\* A completed run that embedded and stored at least two records.
C3_Witness ==
    /\ Returned
    /\ result.Status = StatusCompleted
    /\ env.stored >= 2
    /\ ret.errNil

\* C4: with at least one candidate record, zero vectors stored gives the
\* status failed, whatever the cause.
C4_NothingStoredIsFailed ==
    Returned /\ result.TotalPapers >= 1 /\ env.stored = 0 =>
        result.Status = StatusFailed

\* Every embedding succeeded and the store accepted none of the records.
C4_Witness ==
    /\ Returned
    /\ result.TotalPapers >= 1
    /\ env.embFailed = 0
    /\ env.writerCalled /\ ~env.writerErr
    /\ env.stored = 0
    /\ result.Status = StatusFailed

\* C5: the status is partial exactly when at least one vector was stored and
\* at least one embedding or storage failure occurred.
C5_PartialIffStoredAndFailure ==
    Returned =>
        ((result.Status = StatusPartial)
            <=> (env.stored >= 1 /\ (env.embFailed >= 1 \/ env.storeFailed >= 1)))

\* An embedding-only failure: one call failed, every record handed to the
\* writer was stored.
C5_Witness ==
    /\ Returned
    /\ result.Status = StatusPartial
    /\ env.embFailed >= 1
    /\ env.storeFailed = 0
    /\ env.stored >= 1

\* C6: every return carries a result, and the error is non-nil exactly when
\* the status is partial or failed.
C6_DualReturn ==
    Returned =>
        /\ ~ret.resNil
        /\ result.Status \in {StatusCompleted, StatusPartial, StatusFailed}
        /\ ~ret.errNil <=> result.Status \in {StatusPartial, StatusFailed}

\* A partial outcome returned together with an error.
C6_Witness ==
    /\ Returned
    /\ result.Status = StatusPartial
    /\ ~ret.resNil
    /\ ~ret.errNil

\* C7: on every partial or failed return the text of the error contains the
\* trace id of the invocation.
C7_ErrorNamesTraceID ==
    Returned /\ result.Status \in {StatusPartial, StatusFailed} =>
        ~ret.errNil /\ Contains(ret.errText, traceID)

\* C10: with the empty trace id both GetCombinedTextsByTraceID and
\* processVectorization return the input-validation error and issue no store
\* query, no embedding call and no store write.
C10_EmptyTraceIDFastFail ==
    pc \in {"done", "rdone"} /\ traceID = "" =>
        /\ ~ret.errNil
        /\ Contains(ret.errText, "traceID cannot be empty")
        /\ calls = <<>>
        /\ texts = <<>>
        /\ pc = "done" => result.Status = StatusFailed /\ env = NoEnv

\* The retriever was called with the empty trace id after a run that stored
\* vectors.
C10_Witness ==
    /\ pc = "rdone"
    /\ traceID = ""
    /\ table # EmptyBag

(***************************************************************************)
(* Properties of the ingestion stage (SpecIngest)                          *)
(***************************************************************************)
\* C8: a partial or failed ProcessS3Event returns, with the result, a non-nil
\* error whose message embeds the trace id.
C8_IngestDualReturn ==
    iPc = "done" /\ ~iRet.resNil /\ iResult.Status \in {"partial_success", "failed"} =>
        ~iRet.errNil /\ Contains(iRet.errText, iResult.TraceID)

\* C9: when at least one unique record was handed to the writer and every
\* chunk failed (zero records upserted), the status is failed.
C9_NothingUpsertedIsFailed ==
    (/\ iPc = "done"
     /\ iEnv.writerCalled
     /\ iEnv.handed >= 1
     /\ iResult.UpsertStats.set
     /\ iResult.UpsertStats.stats.SuccessItems = 0)
    => iResult.Status = "failed"


\* The keys of the write requests of one store call.
KeysOf(call) == [i \in 1..Len(call) |-> call[i].PaperID]

\* C30: in one invocation of ProcessS3Event no record with an empty key and
\* no two records with the same key are submitted: the first-attempt write
\* requests are the records handed to the writer, each with a non-empty key
\* distinct from the keys of all the others; a retry submits only some of
\* them.
C30_SubmittedKeysUnique ==
    iPc = "done" /\ iEnv.calls # <<>> =>
        /\ iEnv.calls[1] = iMid.papers
        /\ \A i \in 1..Len(iEnv.calls[1]) : iEnv.calls[1][i].PaperID # ""
        /\ \A i, j \in 1..Len(iEnv.calls[1]) :
             i # j => iEnv.calls[1][i].PaperID # iEnv.calls[1][j].PaperID
        /\ \A k \in 2..Len(iEnv.calls) :
             Range(KeysOf(iEnv.calls[k])) \subseteq Range(KeysOf(iEnv.calls[1]))

\* Four records were parsed, two of them with the key k1: the two records
\* submitted carry the keys k1 and k2.
C30_Witness ==
    /\ iPc = "done"
    /\ iMid.parsed = 4
    /\ iMid.stats.set
    /\ iMid.stats.stats.DuplicateCount = 2
    /\ Len(iEnv.calls) >= 1
    /\ KeysOf(iEnv.calls[1]) = <<"k1", "k2">>

(***************************************************************************)
(* Properties of the retriever (SpecRetriever)                             *)
(***************************************************************************)
\* The three reasons for which a record of the store is not usable.
IsInvalidPaper(p) ==
    p.PaperID = "" \/ p.TraceID = "" \/ (p.Title = <<>> /\ p.Abstract = <<>>)

\* The primary keys of the usable records of items, in order.
KeptIDs(items) ==
    LET kept == SelectSeq(items, LAMBDA p : ~IsInvalidPaper(p))
    IN [i \in 1..Len(kept) |-> kept[i].PaperID]

TextIDs(ts) == [i \in 1..Len(ts) |-> ts[i].PaperID]

\* The items of the responses to queries a..b, concatenated in page order.
RECURSIVE PagesBetween(_, _, _, _)
PagesBetween(store, queries, a, b) ==
    IF a > b THEN <<>>
    ELSE IF a = b THEN Query(store, queries[a], a).items
    ELSE LET m == (a + b) \div 2
         IN PagesBetween(store, queries, a, m) \o PagesBetween(store, queries, m + 1, b)

RetrieverDone == rPc = "done" /\ rTrace # ""

\* C11: the retriever always returns; against a store that answers every
\* query with a next cursor it issues exactly maxPages = 100 queries and
\* returns, with a nil error, the texts of the valid records retrieved.
C11_PaginationTerminates ==
    /\ <>(rPc = "done")
    /\ [](RetrieverDone /\ rStore.endless /\ rStore.failAt = 0 =>
            /\ Len(rOut.queries) = 100
            /\ rOut.errNil
            /\ TextIDs(rOut.texts) = KeptIDs(rStore.items))

\* The store never stops returning a cursor and the call returned texts after
\* the hundredth query.
C11_Witness ==
    /\ RetrieverDone
    /\ rStore.endless
    /\ rSt.pageCount = maxPages
    /\ Len(rOut.texts) >= 1

\* C12: the first query carries no cursor, query k+1 carries the cursor of
\* response k unchanged, the loop stops at the first response without a
\* cursor, and the texts returned are those of the valid records of the
\* fetched pages in page order, then item order.
C12_CursorProtocol ==
    rPc \in {"loop", "done"} /\ rTrace # "" =>
        LET q == rSt.queries
            resp(k) == Query(rStore, q[k], k)
        IN /\ Len(q) >= 1 => q[1] = NoCursor
           /\ \A k \in 1..(Len(q) - 1) :
                /\ ~resp(k).err /\ ~resp(k).malformed
                /\ resp(k).next # NoCursor
                /\ q[k + 1] = resp(k).next
           /\ rPc = "done" =>
                /\ rOut.queries = q
                /\ Len(q) >= 1
                /\ rOut.errNil /\ Len(q) < maxPages => resp(Len(q)).next = NoCursor
                /\ rOut.errNil =>
                     TextIDs(rOut.texts) = KeptIDs(PagesBetween(rStore, q, 1, Len(q)))

\* Two pages were fetched, the second with the cursor of the first, and the
\* second response ended the loop.
C12_Witness ==
    /\ RetrieverDone
    /\ rOut.errNil
    /\ Len(rOut.queries) = 2
    /\ rOut.queries[2] # NoCursor
    /\ Len(rOut.texts) = 2

\* C13: a record of the store with an empty primary key, an empty trace id or
\* neither title nor abstract is dropped: it is never among the papers kept
\* by the loop nor among the combined texts, and a call fails only when a
\* query or the decoding of a page failed.
C13_InvalidRecordsDropped ==
    rPc \in {"loop", "done"} /\ rTrace # "" =>
        /\ \A i \in 1..Len(rSt.allPapers) : ~IsInvalidPaper(rSt.allPapers[i])
        /\ rPc = "done" =>
             /\ \A j \in 1..Len(rStore.items) :
                  IsInvalidPaper(rStore.items[j]) =>
                      \A i \in 1..Len(rOut.texts) :
                          rOut.texts[i].PaperID # rStore.items[j].PaperID
             /\ \A i \in 1..Len(rOut.texts) :
                  \E j \in 1..Len(rStore.items) :
                      /\ ~IsInvalidPaper(rStore.items[j])
                      /\ rStore.items[j].PaperID = rOut.texts[i].PaperID
             /\ ~rOut.errNil =>
                  LET n == Len(rOut.queries)
                      last == Query(rStore, rOut.queries[n], n)
                  IN n >= 1 /\ (last.err \/ last.malformed)
             /\ rOut.errNil => Len(rOut.texts) = Len(KeptIDs(rStore.items))

\* The store returned an unusable record before a usable one; the call
\* succeeded with the text of the usable one only.
C13_Witness ==
    /\ RetrieverDone
    /\ rOut.errNil
    /\ Len(rStore.items) = 2
    /\ IsInvalidPaper(rStore.items[1])
    /\ ~IsInvalidPaper(rStore.items[2])
    /\ Len(rOut.texts) = 1

Separator == <<".", " ">>

StartsWith(x, pre) == Len(x) >= Len(pre) /\ SubSeq(x, 1, Len(pre)) = pre

EndsWith(x, suf) == Len(x) >= Len(suf) /\ SubSeq(x, Len(x) - Len(suf) + 1, Len(x)) = suf

\* C14: a kept record with only a title yields the trimmed title, with only an
\* abstract the trimmed abstract, with both "{title}. {abstract}"; and every
\* combined text is non-empty and neither starts nor ends with ". ".
C14_TextCombinationLaw ==
    RetrieverDone /\ rOut.errNil =>
        LET kept == SelectSeq(rStore.items, LAMBDA p : ~IsInvalidPaper(p))
        IN /\ Len(rOut.texts) = Len(kept)
           /\ \A i \in 1..Len(kept) :
                LET x == rOut.texts[i].Text
                    title == TrimSpace(kept[i].Title)
                    abstract == TrimSpace(kept[i].Abstract)
                IN /\ kept[i].Abstract = <<>> => x = title
                   /\ kept[i].Title = <<>> => x = abstract
                   /\ kept[i].Title # <<>> /\ kept[i].Abstract # <<>>
                        => x = title \o Separator \o abstract
                   /\ x # <<>>
                   /\ ~StartsWith(x, Separator)
                   /\ ~EndsWith(x, Separator)


(***************************************************************************)
(* Properties of the embedding loop and its hand-over (Spec)               *)
(***************************************************************************)
CallsOfKind(k) == SelectSeq(calls, LAMBDA c : c.kind = k)

QueryFailureText(text) ==
    \/ Contains(text, "failed to query papers by traceID on page ")
    \/ Contains(text, "failed to unmarshal papers on page ")

\* C15: when the store holds no usable record for the trace id, the retriever
\* returns an empty result with a nil error unless a query failed, and
\* processVectorization then returns completed with all counters zero and a
\* nil error, having called neither the embedding service nor the writer.
C15_NoRecordsIsNotAnError ==
    pc \in {"done", "rdone"} /\ traceID # "" /\ env.matched = 0 =>
        /\ ~ret.errNil => QueryFailureText(ret.errText)
        /\ ret.errNil =>
             /\ texts = <<>>
             /\ \A i \in 1..Len(calls) : calls[i].kind = "query"
             /\ pc = "rdone" => ret.resNil
             /\ pc = "done" =>
                  /\ result.Status = StatusCompleted
                  /\ result.TotalPapers = 0
                  /\ result.EmbeddingsGenerated = 0
                  /\ result.FailedEmbeddings = 0
                  /\ result.VectorsStored = 0
                  /\ result.FailedStorage = 0
                  /\ ~ret.resNil

\* processVectorization returned completed after two queries that found no
\* usable record.
C15_Witness ==
    /\ Returned
    /\ traceID # ""
    /\ env.retrieved
    /\ env.matched = 0
    /\ Len(calls) = 2
    /\ result.Status = StatusCompleted

ThroughEmbedding == env.retrieved /\ Len(texts) >= 1

\* C16: the embedding service is called once per combined text, in input
\* order, whatever calls fail: after the loop there are exactly as many calls
\* as texts, the i-th for the i-th text.
C16_EmbeddingFailureIsolation ==
    pc \in {"embedding", "store", "done"} /\ ThroughEmbedding =>
        LET e == CallsOfKind("embed")
        IN /\ pc = "embedding" => Len(e) = idx - 1 /\ idx <= Len(texts)
           /\ pc \in {"store", "done"} => Len(e) = Len(texts)
           /\ \A i \in 1..Len(e) : e[i].item = i /\ e[i].arg = texts[i].Text

\* The call for the first text failed and the call for the second was made
\* and succeeded.
C16_Witness ==
    /\ pc = "store"
    /\ Len(texts) = 2
    /\ env.embFailed = 1
    /\ env.embedded = <<2>>
    /\ Len(CallsOfKind("embed")) = 2

\* C17: if every embedding call failed the writer is not called and the
\* return is failed with FailedEmbeddings = TotalPapers, no embedding
\* generated, nothing stored and the "no embeddings were generated" error;
\* otherwise the writer is called exactly once with the records of the
\* successfully embedded texts, in input order.
C17_WriterHandOver ==
    Returned /\ ThroughEmbedding =>
        LET w == CallsOfKind("writer")
        IN IF env.embFailed = Len(texts)
           THEN /\ w = <<>>
                /\ CallsOfKind("write") = <<>>
                /\ result.Status = StatusFailed
                /\ result.FailedEmbeddings = result.TotalPapers
                /\ result.EmbeddingsGenerated = 0
                /\ result.VectorsStored = 0
                /\ ~ret.errNil
                /\ Contains(ret.errText, "no embeddings were generated successfully")
           ELSE /\ Len(w) = 1
                /\ Len(w[1].arg) = Len(env.embedded)
                /\ \A i \in 1..Len(env.embedded) :
                     /\ w[1].arg[i].PaperID = texts[env.embedded[i]].PaperID
                     /\ w[1].arg[i].Content = texts[env.embedded[i]].Text
                     /\ w[1].arg[i].TraceID = traceID

\* Every call failed for two texts and the invocation returned.
C17_Witness ==
    /\ Returned
    /\ Len(texts) = 2
    /\ env.embFailed = 2
    /\ ~env.writerCalled

\* C18: after the embedding loop FailedEmbeddings is the number of embedding
\* calls that failed, EmbeddingsGenerated + FailedEmbeddings = TotalPapers,
\* and FailedStorage is the number of items the writer reported as failed,
\* whatever the embedding failures.
C18_FailureAxesSeparate ==
    Returned /\ ThroughEmbedding =>
        /\ result.TotalPapers = Len(texts)
        /\ result.FailedEmbeddings = env.embFailed
        /\ result.EmbeddingsGenerated + result.FailedEmbeddings = result.TotalPapers
        /\ env.writerCalled /\ ~env.writerErr => result.FailedStorage = env.storeFailed
        /\ ~env.writerCalled \/ env.writerErr => result.FailedStorage = 0

\* One embedding call failed and the store refused the record of the other
\* text.
C18_Witness ==
    /\ Returned
    /\ env.embFailed = 1
    /\ env.writerCalled /\ ~env.writerErr
    /\ env.storeFailed = 1
    /\ result.FailedStorage = 1


(***************************************************************************)
(* Properties of the vector writer (SpecStore)                             *)
(***************************************************************************)
\* The rules a vector record must satisfy to be written.
IsInvalidRecord(r) ==
    \/ r.PaperID = ""
    \/ r.VectorType = ""
    \/ r.Embedding = <<>>
    \/ r.Dimension # Len(r.Embedding)
    \/ r.ModelVersion = ""
    \/ r.TraceID = ""
    \/ \E i \in 1..Len(r.Embedding) : r.Embedding[i] = "NaN"

Occurrences(s, x) == Cardinality({i \in 1..Len(s) : s[i] = x})

WriterValid == SelectSeq(wIn, LAMBDA r : ~IsInvalidRecord(r))

WriterInvalid == SelectSeq(wIn, LAMBDA r : IsInvalidRecord(r))

\* C19: a record breaking a rule of the local validation is in no write
\* request; it is in FailedItems, with one "invalid record" error; and the
\* valid records handed over with it are submitted, in order.
C19_InvalidRecordsNotSubmitted ==
    wPc = "done" =>
        /\ \A k \in 1..Len(wOut.requests) :
             \A i \in 1..Len(wOut.requests[k]) : ~IsInvalidRecord(wOut.requests[k][i])
        /\ wOut.requests = IF WriterValid = <<>> THEN <<>> ELSE <<WriterValid>>
        /\ \A r \in Range(WriterInvalid) :
             Occurrences(wOut.FailedItems, r) = Occurrences(wIn, r)
        /\ Cardinality({i \in 1..Len(wOut.Errors) : wOut.Errors[i][1] = "invalid record "})
             = Len(WriterInvalid)
        /\ \A i \in 1..Len(wOut.accepted) : ~IsInvalidRecord(wOut.accepted[i])

\* A record with a NaN value was handed over between two valid ones, which
\* the store accepted.
C19_Witness ==
    /\ wPc = "done"
    /\ Len(wIn) = 3
    /\ ~IsInvalidRecord(wIn[1])
    /\ wIn[2].Embedding = <<"0.1", "NaN">>
    /\ ~IsInvalidRecord(wIn[3])
    /\ Len(wOut.accepted) = 2
    /\ Len(wOut.FailedItems) = 1

\* C20: when the store reports the subset U of the submitted items as
\* unprocessed, the FailedItems hold, besides the invalid records, exactly the
\* records of U, SuccessCount is the number submitted minus |U|, and no error
\* is appended for them.
C20_UnprocessedItemsFailed ==
    wPc = "done" /\ WriterValid # <<>> /\ ~wAns[1].err =>
        LET n == Len(WriterValid)
            U == wAns[1].unprocessed \cap (1..n)
        IN /\ wOut.FailedItems = WriterInvalid \o AtPositions(WriterValid, U)
           /\ wOut.SuccessCount = n - Cardinality(U)
           /\ Len(wOut.Errors) = Len(WriterInvalid)

Chunks == 1..NumChunks(Len(wIn))

\* The k-th consecutive slice of at most 25 of the records handed over.
ChunkOf(k) == SubSeq(wIn, (k - 1) * 25 + 1, Min(k * 25, Len(wIn)))

ChunkValid(k) == SelectSeq(ChunkOf(k), LAMBDA r : ~IsInvalidRecord(r))

\* The chunks for which a store call is due: those with a valid record.
CallChunks == {k \in Chunks : ChunkValid(k) # <<>>}

\* The chunks whose store call returns an error.
ErrChunks == {k \in CallChunks : wAns[k].err}

RECURSIVE SumOver(_, _)
SumOver(S, f) ==
    IF S = {} THEN 0
    ELSE LET k == CHOOSE x \in S : TRUE IN f[k] + SumOver(S \ {k}, f)

\* The request lists due, one per chunk of CallChunks, in chunk order.
RECURSIVE DueRequests(_)
DueRequests(k) ==
    IF k > NumChunks(Len(wIn)) THEN <<>>
    ELSE (IF k \in CallChunks THEN <<ChunkValid(k)>> ELSE <<>>) \o DueRequests(k + 1)

StoreErrorText == <<"batch write failed: ", "store error">>

\* C21: when the store call of a chunk returns an error, with or without an
\* output value, BatchStoreVectors still returns normally, every valid record
\* of that chunk is in FailedItems, the store error is in Errors once per
\* failed chunk, SuccessCount gains nothing from that chunk, and the chunks
\* after it are still submitted.
C21_HardStoreErrorContained ==
    wPc = "done" /\ ErrChunks # {} =>
        /\ ~wOut.panicked
        /\ \A k \in ErrChunks : \A r \in Range(ChunkValid(k)) :
             Occurrences(wOut.FailedItems, r) >= 1
        /\ Occurrences(wOut.Errors, StoreErrorText) = Cardinality(ErrChunks)
        /\ wOut.SuccessCount =
             SumOver(CallChunks \ ErrChunks,
                     [k \in Chunks |->
                        Len(ChunkValid(k))
                          - Cardinality(wAns[k].unprocessed \cap (1..Len(ChunkValid(k))))])
        /\ wOut.requests = DueRequests(1)

IsPrefix(s, t) == Len(s) <= Len(t) /\ s = SubSeq(t, 1, Len(s))

\* The number of store calls whose request list holds the record r.
TimesSubmitted(r) ==
    Cardinality({k \in 1..Len(wOut.requests) : r \in Range(wOut.requests[k])})

\* C23: the vector writer issues at most one store call per chunk - the
\* calls made are, in chunk order, the valid records of the chunks - and no
\* record, unprocessed or not, is submitted a second time.
C23_SingleAttempt ==
    wPc = "done" =>
        /\ Len(wOut.requests) <= NumChunks(Len(wIn))
        /\ IsPrefix(wOut.requests, DueRequests(1))
        /\ \A r \in Range(wIn) : TimesSubmitted(r) <= 1

\* Of 51 records the store left the first unprocessed: three calls were made,
\* 50 records counted as stored and the failed one was not submitted again.
C23_Witness ==
    /\ wPc = "done"
    /\ Len(wIn) = 51
    /\ wBuilt.bad = {}
    /\ wAns[1] = [err |-> FALSE, outNil |-> FALSE, unprocessed |-> {1}]
    /\ ~wAns[2].err /\ ~wAns[3].err
    /\ Len(wOut.requests) = 3
    /\ Len(wOut.FailedItems) >= 1
    /\ TimesSubmitted(wIn[1]) = 1

\* The counts of a result: SuccessCount + len(FailedItems) = len(records)
\* with 0 <= SuccessCount <= len(records), and a record is among the failed
\* items no more often than it was handed over.
AccountingHolds ==
    /\ wOut.SuccessCount + Len(wOut.FailedItems) = Len(wIn)
    /\ 0 <= wOut.SuccessCount
    /\ wOut.SuccessCount <= Len(wIn)
    /\ \A i \in 1..Len(wOut.FailedItems) :
         Occurrences(wOut.FailedItems, wOut.FailedItems[i])
             <= Occurrences(wIn, wOut.FailedItems[i])

\* C25: whatever the records and whatever the store's answers, the call of
\* BatchStoreVectors returns a result, and the result satisfies
\* SuccessCount + len(FailedItems) = len(records) with
\* 0 <= SuccessCount <= len(records), no record counted twice.
C25_VectorWriterAccounting ==
    wPc = "done" => ~wOut.panicked /\ AccountingHolds

\* The accounting of the calls that return: every store behaviour but an
\* error with a nil output.
AccountingOfReturnedResults ==
    wPc = "done" /\ ~wOut.panicked => AccountingHolds

\* C28: a record built by CreateVectorRecord from an embedding of length L
\* declares the dimension L; and a record whose declared dimension differs
\* from the length of its embedding is rejected by the validation: it is in
\* no write request, is not written, and is among the failed items.
C28_DimensionAgreement ==
    wPc \in {"input", "done"} =>
        /\ \A i \in (1..Len(wIn)) \ wBuilt.bad :
             /\ Len(wIn[i].Embedding) = wBuilt.L
             /\ wIn[i].Dimension = wBuilt.L
        /\ \A i \in wBuilt.bad : validateVectorRecord(wIn[i]) # ""
        /\ wPc = "done" =>
             /\ \A k \in 1..Len(wOut.requests) : \A r \in Range(wOut.requests[k]) :
                  r.Dimension = Len(r.Embedding)
             /\ \A r \in Range(wOut.accepted) : r.Dimension = Len(r.Embedding)
             /\ ~wOut.panicked =>
                  \A i \in wBuilt.bad : wIn[i] \in Range(wOut.FailedItems)

\* Two records were built from embeddings of length 3; the declared dimension
\* of the second was then changed to 4: the first was written, the second
\* rejected.
C28_Witness ==
    /\ wPc = "done"
    /\ ~wOut.panicked
    /\ wBuilt = [n |-> 24, L |-> 3, bad |-> {2}]
    /\ wIn[1].Dimension = 3
    /\ wIn[2].Dimension = 4 /\ Len(wIn[2].Embedding) = 3
    /\ wIn[1] \in Range(wOut.accepted)
    /\ wIn[2] \in Range(wOut.FailedItems)
    /\ wIn[2] \notin Range(wOut.requests[1])

(***************************************************************************)
(* Claims on the ingestion writer (SpecUpsert)                             *)
(***************************************************************************)
\* What the writer called returned.
Upserted == IF uPc = "stats" THEN uOut ELSE uPlain

UpsertChunks == 1..NumChunks(Len(uIn))

\* The k-th consecutive slice of at most 25 of the papers handed over.
UpsertChunkOf(k) == SubSeq(uIn, (k - 1) * 25 + 1, Min(k * 25, Len(uIn)))

\* The retry law on one chunk: c is what processBatch did with it, script the
\* store's answers to the successive calls.
RetryLaw(c, chunk, script) ==
    /\ Len(c.calls) \in 1..3
    /\ c.calls[1] = chunk
    /\ \A j \in 2..Len(c.calls) :
         /\ ~script[j - 1].err
         /\ c.calls[j] = UnprocessedOf(c.calls[j - 1], script[j - 1].keep)
         /\ c.calls[j] # <<>>
    /\ LET last == Len(c.calls)
           left == UnprocessedOf(c.calls[last], script[last].keep)
       IN /\ c.errNil <=> (~script[last].err /\ left = <<>>)
          /\ (~script[last].err /\ left # <<>>) => last = 3

\* C22: for each chunk the ingestion writer issues at most 3 store calls; the
\* first submits the chunk and every later one exactly the unprocessed items
\* returned by the call before it; the chunk succeeds as soon as a call
\* returns no unprocessed items and fails if items remain after the third.
C22_LocalRetry ==
    uPc \in {"stats", "plain"} =>
        \A k \in 1..Len(Upserted.chunks) :
            RetryLaw(Upserted.chunks[k], UpsertChunkOf(k), uStore[k])

\* A chunk of 25 was written at the third call (24, then 24 items returned
\* unprocessed) and the next chunk failed with an item left after the third.
C22_Witness ==
    /\ uPc = "stats"
    /\ Len(uIn) = 50
    /\ Len(uOut.chunks[1].calls) = 3
    /\ Len(uOut.chunks[1].calls[2]) = 24
    /\ uOut.chunks[1].errNil
    /\ Len(uOut.chunks[2].calls) = 3
    /\ ~uOut.chunks[2].errNil

\* C24: for N papers the ingestion writers (BatchUpsert and
\* BatchUpsertWithStats) submit each of the ceil(N/25) consecutive slices of
\* at most 25 papers to the store: one first call per slice, in order (30
\* papers: slices of 25 and 5), and no call for N = 0.
C24_ChunkCount ==
    uPc \in {"stats", "plain"} =>
        /\ Len(Upserted.chunks) = (Len(uIn) + 24) \div 25
        /\ \A k \in 1..Len(Upserted.chunks) :
             /\ Upserted.chunks[k].calls # <<>>
             /\ Upserted.chunks[k].calls[1] = UpsertChunkOf(k)
             /\ Len(Upserted.chunks[k].calls[1]) <= 25
        /\ Len(uIn) = 0 => Upserted.calls = <<>>

\* The chunks of the list that processBatch reported as written.
WrittenChunks == {k \in 1..Len(uOut.chunks) : uOut.chunks[k].errNil}

\* C26: whatever the papers and the store's answers, BatchUpsertWithStats
\* returns a nil error and statistics with SuccessItems + FailedItems =
\* TotalItems = len(papers) and SuccessBatches + FailedBatches = BatchCount =
\* ceil(len(papers) / 25); the successes are the chunks written.
C26_IngestionWriterAccounting ==
    uPc = "stats" =>
        LET st == uOut.stats
        IN /\ uOut.errNil
           /\ st.SuccessItems + st.FailedItems = st.TotalItems
           /\ st.TotalItems = Len(uIn)
           /\ st.SuccessBatches + st.FailedBatches = st.BatchCount
           /\ st.BatchCount = (Len(uIn) + 24) \div 25
           /\ st.SuccessBatches = Cardinality(WrittenChunks)
           /\ st.SuccessItems =
                SumOver(WrittenChunks, [k \in UpsertChunks |-> Len(UpsertChunkOf(k))])

\* Of 51 papers the second chunk failed after writing one item at its first
\* call: 26 items in 2 chunks count as written, 25 in 1 chunk as failed.
C26_Witness ==
    /\ uPc = "stats"
    /\ Len(uIn) = 51
    /\ uOut.stats.SuccessBatches = 2
    /\ uOut.stats.FailedBatches = 1
    /\ uOut.stats.SuccessItems = 26
    /\ uOut.stats.FailedItems = 25
    /\ ~uOut.chunks[2].errNil
    /\ Len(uOut.chunks[2].accepted) >= 1

\* C27: BatchUpsertWithStats attempts every chunk: after a chunk that failed,
\* by a store error or with items left after the retries, the loop goes on,
\* so that each of the ceil(N/25) slices of the papers is submitted to the
\* store, in the order of the slices.
C27_EveryChunkAttempted ==
    uPc = "stats" =>
        /\ \A k \in UpsertChunks :
             \E j \in 1..Len(uOut.calls) : uOut.calls[j] = UpsertChunkOf(k)
        /\ \A j1, j2 \in 1..Len(uOut.calls) :
             \A k1, k2 \in UpsertChunks :
                 (/\ uOut.calls[j1] = UpsertChunkOf(k1)
                  /\ uOut.calls[j2] = UpsertChunkOf(k2)
                  /\ k1 < k2) => j1 < j2

\* Of 51 papers the first chunk failed by a store error and the second with
\* an item left after the third call; the third chunk was still submitted
\* and written.
C27_Witness ==
    /\ uPc = "stats"
    /\ Len(uIn) = 51
    /\ uStore[1][1].err
    /\ ~uOut.chunks[1].errNil
    /\ Len(uOut.chunks[2].calls) = 3
    /\ ~uOut.chunks[2].errNil
    /\ uOut.chunks[3].errNil
    /\ uOut.chunks[3].calls = <<UpsertChunkOf(3)>>

(***************************************************************************)
(* Claim on the embedding client (SpecEmbed)                               *)
(***************************************************************************)
\* C31: GenerateEmbedding never sends more than 10,000 units of text to the
\* embedding service: of an input longer than 10,000 the service gets the
\* first 10,000 units, a shorter input it gets unchanged, and an empty input
\* fails without any request.  The units are those of the code's len: bytes.
C31_TruncationLimit ==
    ePc = "done" =>
        IF eText = <<>>
        THEN ~eOut.requested /\ ~eOut.errNil
        ELSE eOut.requested =>
                 /\ Len(eOut.sent) <= 10000
                 /\ Len(eText) > 10000 => eOut.sent = SubSeq(eText, 1, 10000)
                 /\ Len(eText) <= 10000 => eOut.sent = eText

(***************************************************************************)
(* Claim on invocations sharing an instance (SpecShared)                   *)
(***************************************************************************)
\* C32: invocations are independent.  A call of DeduplicateWithStats,
\* BatchUpsertWithStats, BatchStoreVectors or GetCombinedTextsByTraceID ends
\* as the same call ends on an instance that runs nothing else - it returns,
\* and returns the same result, unless the call alone would panic - whether
\* another invocation on the instance ended before it, runs between its
\* iterations, or has not started.
C32_InvocationsIndependent ==
    \A x \in Invocations :
        sInv[x].pc \in {"done", "crashed"} =>
            LET alone == InIsolation(sComp, sInv[x].arg, sInv[x].store)
            IN IF sComp = "vectorStorage" /\ alone.panicked
               THEN sInv[x].pc = "crashed"
               ELSE sInv[x].pc = "done" /\ sInv[x].out = alone

\* The invocations that returned got what the call returns in isolation.
ReturnedAsInIsolation ==
    \A x \in Invocations :
        sInv[x].pc = "done" =>
            sInv[x].out = InIsolation(sComp, sInv[x].arg, sInv[x].store)

(***************************************************************************)
(* Claim on repeated invocations (SpecRerun)                               *)
(***************************************************************************)
\* The valid records the papers table holds for the trace.
ValidSource == ValidPapers(rStore.items)

\* The valid records on the first maxPages pages of the index.
WithinCeiling ==
    ValidPapers(SubSeq(rStore.items, 1, Min(Len(rStore.items), maxPages * rStore.pageSize)))

KeyUnique ==
    /\ \A e \in BagToSet(table) : CopiesIn(e, table) = 1
    /\ \A a, b \in BagToSet(table) : SameKey(a, b) => a = b

RunCompleted == pc = "done" /\ ret.returned /\ result.Status = StatusCompleted

\* The table holds exactly one item per record of src, and no other item.
OnePerRecord(src) ==
    /\ \A k \in 1..Len(src) :
          LET held == {e \in BagToSet(table) :
                          /\ e.PaperID = src[k].PaperID
                          /\ e.VectorType = "title_abstract"}
          IN  BagCardinality([e \in held |-> table[e]]) = 1
    /\ \A e \in BagToSet(table) : \E k \in 1..Len(src) : src[k].PaperID = e.PaperID

\* C33 as stated: re-running processVectorization for the same trace id on
\* unchanged source records never leaves two vector records for one (paper
\* id, vector kind) key, and once a run ends completed the vectors table
\* holds exactly one record per valid source record of the trace, whatever
\* runs preceded it.
C33_IdempotentRerun ==
    /\ KeyUnique
    /\ RunCompleted => OnePerRecord(ValidSource)

\* C33 within the page ceiling: the table never holds two records for one
\* key, and once a run ends completed it holds exactly one record per valid
\* source record found on the first maxPages pages of the index.
C33_IdempotentRerunWithinCeiling ==
    /\ KeyUnique
    /\ RunCompleted => OnePerRecord(WithinCeiling)

\* A run ended completed after a run that ended partial and left a record
\* in the table.
C33_Witness ==
    /\ RunCompleted
    /\ env.prior # <<>>
    /\ env.prior[Len(env.prior)] = StatusPartial
    /\ BagCardinality(table) = 2
    /\ Len(ValidSource) = 2

(***************************************************************************)
(* Claim on the S3 event of an ingestion invocation (SpecEvent)            *)
(***************************************************************************)
\* The key a map of the feed carries: paper_id, or else id.
FeedKey(mp) == IF mp.paper_id # "" THEN mp.paper_id ELSE mp.id

\* The maps of an object that carry a key.
Keyed(object) == SelectSeq(object.data.maps, LAMBDA mp : FeedKey(mp) # "")

\* The object was downloaded and parsed: a JSON array always parses, lines
\* parse when one of them carries a key.
Readable(object) ==
    /\ ~object.downloadErr
    /\ object.data.format = "array" \/ Keyed(object) # <<>>

\* The objects of the event that were downloaded and parsed.
ReadableObjects == {k \in 1..Len(iEvent) : Readable(iEvent[k])}

\* The number of maps with a key in each of them.
KeyedCount == [k \in ReadableObjects |-> Len(Keyed(iEvent[k]))]

\* C34: one invocation of ProcessS3Event mints one trace id and stamps it on
\* every record parsed from every object of the event and on the result; an
\* object that cannot be downloaded or parsed does not keep the records of
\* the other objects from being parsed; the deduplication runs once over
\* all of them, so that a key found in the objects is handed to the writer
\* once, submitted once in the first attempt and written at most once.
C34_OneTracePerEvent ==
    iPc \in {"write", "done"} /\ iEvent # <<>> =>
        /\ iMid.trace \in UUIDs
        /\ \A i \in 1..Len(iMid.allPapers) : iMid.allPapers[i].TraceID = iMid.trace
        /\ \A i \in 1..Len(iMid.papers) : iMid.papers[i].TraceID = iMid.trace
        /\ iPc = "done" => iResult.TraceID = iMid.trace
        /\ Len(iMid.allPapers) = SumOver(ReadableObjects, KeyedCount)
        /\ \A k \in ReadableObjects : \A n \in 1..Len(Keyed(iEvent[k])) :
              /\ \E i \in 1..Len(iMid.allPapers) :
                    iMid.allPapers[i].PaperID = FeedKey(Keyed(iEvent[k])[n])
              /\ Cardinality({i \in 1..Len(iMid.papers) :
                      iMid.papers[i].PaperID = FeedKey(Keyed(iEvent[k])[n])}) = 1
        /\ iPc = "done" /\ iEnv.calls # <<>> =>
              /\ iEnv.calls[1] = iMid.papers
              /\ \A i, j \in 1..Len(iEnv.accepted) :
                    iEnv.accepted[i].PaperID = iEnv.accepted[j].PaperID => i = j

\* The first object of the event could not be downloaded, the second holds
\* a record with a key: the record was written, carrying the trace id of the
\* result.
C34_Witness ==
    /\ iPc = "done"
    /\ Len(iEvent) = 2
    /\ iEvent[1].downloadErr
    /\ Readable(iEvent[2]) /\ Keyed(iEvent[2]) # <<>>
    /\ Len(iEnv.accepted) = 1
    /\ iEnv.accepted[1].PaperID = FeedKey(Keyed(iEvent[2])[1])
    /\ iEnv.accepted[1].TraceID = iResult.TraceID

(***************************************************************************)
(* Claim on the write requests of both writers (SpecWriters)               *)
(***************************************************************************)
\* The request lists submitted to the stores: by BatchStoreVectors, by
\* BatchUpsertWithStats and by BatchUpsert, retries included.
RequestLists == wOut.requests \o uOut.calls \o uPlain.calls

\* C35: every write request handed to a store by either writer, the retries
\* of the ingestion writer included, carries at least one item and at most
\* 25; no call is made with an empty request list.
C35_RequestSizes ==
    \A k \in 1..Len(RequestLists) :
        /\ Len(RequestLists[k]) >= 1
        /\ Len(RequestLists[k]) <= 25

\* The ingestion writer wrote a list of 26 papers in a chunk of 25 items and a
\* chunk of one, and retried a chunk with fewer items than it had submitted.
C35_Witness ==
    /\ uPc = "stats"
    /\ Len(uIn) = MaxBatchSize + 1
    /\ \E k \in 1..Len(uOut.calls) : Len(uOut.calls[k]) = MaxBatchSize
    /\ \E k \in 1..Len(uOut.calls) : Len(uOut.calls[k]) = 1
    /\ \E k \in 2..Len(uOut.calls) :
          Len(uOut.calls[k]) < Len(uOut.calls[k - 1]) /\ Len(uOut.calls[k]) > 1

(***************************************************************************)
(* Claims on the accounting of the two stages                              *)
(***************************************************************************)
\* C36: on every return of processVectorization that follows a call of the
\* storage writer, the writer-error return included, VectorsStored +
\* FailedStorage equals EmbeddingsGenerated; a completed result therefore
\* has VectorsStored equal to TotalPapers.
C36_StorageAccounting ==
    pc = "done" /\ env.writerCalled =>
        /\ result.VectorsStored + result.FailedStorage = result.EmbeddingsGenerated
        /\ result.Status = StatusCompleted => result.VectorsStored = result.TotalPapers

\* C37: every record BatchUpsertWithStats counts in FailedItems was not
\* accepted by the store and every record it counts in SuccessItems was: of
\* a chunk whose retries are exhausted only the items still unprocessed
\* count as failed.  In numbers: FailedItems is at most the number of
\* records the store did not accept, SuccessItems at most the number it
\* accepted, and a failed chunk adds to FailedItems the items it left
\* unaccepted.
C37_FailedItemsNotAccepted ==
    uPc = "stats" =>
        /\ uOut.stats.SuccessItems <= Len(uOut.accepted)
        /\ uOut.stats.FailedItems <= Len(uIn) - Len(uOut.accepted)
        /\ uOut.stats.FailedItems =
             SumOver(UpsertChunks \ WrittenChunks,
                     [k \in UpsertChunks |->
                        Len(UpsertChunkOf(k)) - Len(uOut.chunks[k].accepted)])

(***************************************************************************)
(* Claim on the page-limit warning (SpecRetriever)                         *)
(***************************************************************************)
\* The response to the query of page maxPages carried a cursor.
CutShort ==
    /\ Len(rOut.queries) = maxPages
    /\ Query(rStore, rOut.queries[maxPages], maxPages).next # NoCursor

\* C38: the page-limit warning is logged if and only if the retrieval was
\* cut short, that is, the response to the hundredth query still carried a
\* cursor; a result that ends on page 100, whose response carries no cursor,
\* gives no warning.
C38_WarningIffCutShort ==
    RetrieverDone => (rOut.warned <=> CutShort)

(***************************************************************************)
(* Claim on the records the coordinator builds (Spec)                      *)
(***************************************************************************)
\* C39: every vector record the coordinator builds, from a combined text the
\* retriever returned and an embedding response that
\* validateEmbeddingResponse accepted, passes validateVectorRecord; so do
\* the records it hands to the storage writer.
C39_BuiltRecordsValid ==
    /\ \A i \in 1..Len(vectorRecords) : validateVectorRecord(vectorRecords[i]) = ""
    /\ \A c \in 1..Len(calls) :
          calls[c].kind = "writer" =>
              \A i \in 1..Len(calls[c].arg) : validateVectorRecord(calls[c].arg[i]) = ""

\* Two records were built, each from a text of the retriever and a response
\* the embedding client accepted, and handed to the writer.
C39_Witness ==
    /\ pc = "done"
    /\ env.writerCalled
    /\ Len(vectorRecords) = 2
    /\ env.embFailed = 0

(***************************************************************************)
(* Claim on the two deduplication methods (SpecDedup)                      *)
(***************************************************************************)
\* C40: Deduplicate and DeduplicateWithStats return the same records in the
\* same order; what they return has only non-empty, pairwise distinct keys;
\* each of them, applied to what it returned, returns it unchanged.
C40_SameRecordsAndIdempotent ==
    /\ dPc \in {"done", "again"} =>
          /\ dOutPlain = dOut
          /\ \A i \in 1..Len(dOut) : dOut[i].PaperID # ""
          /\ \A i, j \in 1..Len(dOut) : dOut[i].PaperID = dOut[j].PaperID => i = j
    /\ dPc = "again" =>
          /\ dOut = dIn
          /\ dOutPlain = dIn
          /\ dStats.DuplicateCount = 0
          /\ dStats.InvalidCount = 0

\* Each method was called on what it had returned, two records with
\* different keys, and returned the two records again.
C40_Witness ==
    /\ dPc = "again"
    /\ Len(dOut) = 2
    /\ Len(dOutPlain) = 2
    /\ dOut[1].PaperID # dOut[2].PaperID
====
